---- MODULE Spec2Model ----
(***************************************************************************)
(* A model of the DBC binary codec of wow_dbc (the generated per-table     *)
(* read / write / Indexable implementations and the typed keys).           *)
(*                                                                         *)
(* Representation of machine integers.  TLC's integers are 32-bit signed,  *)
(* so a u32 above 2^31-1 or an i64/u64 outside that range cannot be a TLC  *)
(* number.  Every program integer that is a u32, an i32, an f32 bit        *)
(* pattern or a conversion source is therefore a "wide" integer, the pair  *)
(* <<hi, lo>> with 0 <= lo < 65536 that stands for hi * 65536 + lo (hi may *)
(* be negative).  Lengths and cursors of type usize that stay below 2^31   *)
(* in every state of the model (string lengths, string_index, positions)   *)
(* are plain numbers.  Bytes are the numbers 0..255, a byte stream and a   *)
(* Rust String are sequences of bytes.                                     *)
(***************************************************************************)
EXTENDS Integers, Sequences, FiniteSets, TLC

VARIABLES
    tbl,      \* the table type under test (its generated module)
    build,    \* "debug" or "release": decides what u32 overflow does
    origin,   \* "table": the run starts from a table value; "stream": from bytes
    input,    \* the byte stream handed to the first read (origin = "stream")
    table,    \* the in-memory table value: a sequence of rows
    res,      \* result of the first read
    out,      \* the bytes produced by write
    res2,     \* result of reading `out` back
    pc,       \* position of the run
    ksrc,     \* key specification: the integer handed to a conversion or lookup
    kres,     \* key specification: what the conversion / lookup returned
    dirs,     \* generator: the schema directory of each version, as listed
    gen,      \* generator: the position and the locals of main
    fs,       \* generator: the output files, path to contents
    touched,  \* generator: the paths written by the current run
    call      \* generated module: the last call made on it and its result

vars == <<tbl, build, origin, input, table, res, out, res2, pc, ksrc, kres,
          dirs, gen, fs, touched, call>>

\* the variables of the generator and those of the codec
genvars == <<dirs, gen, fs, touched, call>>
codecvars == <<tbl, build, origin, input, table, res, out, res2, pc, ksrc, kres>>

(***************************************************************************)
(* Bounds of the model.                                                    *)
(***************************************************************************)
MaxRows == 2

(***************************************************************************)
(* Wide integers.                                                          *)
(***************************************************************************)
Half == 256 * 256

W(hi, lo) == <<hi, lo>>
Hi(w) == w[1]
Lo(w) == w[2]

\* the wide integer of a number n that TLC can hold
FromInt(n) == W(n \div Half, n % Half)

WLess(a, b) == Hi(a) < Hi(b) \/ (Hi(a) = Hi(b) /\ Lo(a) < Lo(b))
WLeq(a, b) == a = b \/ WLess(a, b)

\* the ranges of the integer types, as conditions on hi (lo is always 0..65535)
InI8(w)  == WLeq(FromInt(-128), w) /\ WLeq(w, FromInt(127))
InU8(w)  == WLeq(FromInt(0), w) /\ WLeq(w, FromInt(255))
InI16(w) == WLeq(FromInt(-32768), w) /\ WLeq(w, FromInt(32767))
InU16(w) == WLeq(FromInt(0), w) /\ WLeq(w, FromInt(65535))
InI32(w) == -32768 <= Hi(w) /\ Hi(w) <= 32767
InU32(w) == 0 <= Hi(w) /\ Hi(w) <= 65535

\* `x as u32`: truncation to 32 bits
AsU32(w) == W(Hi(w) % Half, Lo(w))

\* a u32 as a number, when it is below 2^31; Huge stands for every larger one
Huge == 32767 * Half + 65535
AsUsize(w) == IF Hi(w) < 32768 THEN Hi(w) * Half + Lo(w) ELSE Huge

\* u32 * u32 for a small right operand k (a ROW_SIZE): the exact product
WMul(w, k) ==
    LET t == Lo(w) * k
    IN  W(Hi(w) * k + (t \div Half), t % Half)

(***************************************************************************)
(* Little-endian encoding and decoding of 4-byte integers.                 *)
(***************************************************************************)
\* u32::to_le_bytes / i32::to_le_bytes / f32::to_le_bytes (two's complement)
to_le_bytes(w) ==
    << Lo(w) % 256, Lo(w) \div 256, Hi(w) % 256, (Hi(w) \div 256) % 256 >>

\* u32::from_le_bytes of the 4 bytes of s starting at p
u32_from_le(s, p) == W(s[p + 2] + 256 * s[p + 3], s[p] + 256 * s[p + 1])

\* i32::from_le_bytes of the 4 bytes of s starting at p
i32_from_le(s, p) ==
    W(s[p + 2] + 256 * s[p + 3] - (IF s[p + 3] >= 128 THEN Half ELSE 0),
      s[p] + 256 * s[p + 1])

SubSeqFrom(s, p) == SubSeq(s, p, Len(s))

(***************************************************************************)
(* Errors and results.  An error is a record of fixed shape; the fields    *)
(* expected / actual are meaningful for InvalidHeader only.                *)
(***************************************************************************)
W0 == W(0, 0)

Error(kind, variant, expected, actual) ==
    [kind |-> kind, variant |-> variant, expected |-> expected, actual |-> actual]

NoError == Error("None", "None", W0, W0)
IoError == Error("Io", "UnexpectedEof", W0, W0)
InvalidString == Error("InvalidString", "Utf8", W0, W0)
MagicError == Error("InvalidHeader", "Magic", W0, W0)
RecordSizeError(expected, actual) ==
    Error("InvalidHeader", "RecordSize", expected, actual)
FieldCountError(expected, actual) ==
    Error("InvalidHeader", "FieldCount", expected, actual)
\* an enum field holds `value`, which is no value of the enum `enum`
InvalidEnumValue(enum, value) == Error("InvalidEnumValue", enum, W0, value)

\* Result<Table, DbcError> of read, with the number of bytes taken from the
\* reader by the read_exact calls that completed.  status "Panic" is a
\* run that ends in a panic instead of returning.
Ok(rows, consumed) ==
    [status |-> "Ok", err |-> NoError, rows |-> rows, consumed |-> consumed]
Err(e, consumed) ==
    [status |-> "Err", err |-> e, rows |-> <<>>, consumed |-> consumed]
Panic(consumed) ==
    [status |-> "Panic", err |-> NoError, rows |-> <<>>, consumed |-> consumed]
NoResult ==
    [status |-> "None", err |-> NoError, rows |-> <<>>, consumed |-> 0]

(***************************************************************************)
(* The header (crate::header).                                             *)
(***************************************************************************)
HEADER_SIZE == 20

MAGIC == <<87, 68, 66, 67>>     \* "WDBC"

DbcHeader(record_count, field_count, record_size, string_block_size) ==
    [record_count |-> record_count, field_count |-> field_count,
     record_size |-> record_size, string_block_size |-> string_block_size]

\* DbcHeader::write_header: the 20 bytes of a header
write_header(h) ==
    MAGIC \o to_le_bytes(h.record_count) \o to_le_bytes(h.field_count)
          \o to_le_bytes(h.record_size) \o to_le_bytes(h.string_block_size)

\* parse_header: the header of 20 bytes, or the magic error
parse_header(s) ==
    IF SubSeq(s, 1, 4) # MAGIC
    THEN [ok |-> FALSE, header |-> DbcHeader(W0, W0, W0, W0)]
    ELSE [ok |-> TRUE,
          header |-> DbcHeader(u32_from_le(s, 5), u32_from_le(s, 9),
                               u32_from_le(s, 13), u32_from_le(s, 17))]

(***************************************************************************)
(* crate::util: readers over a record chunk.  A reader takes its bytes     *)
(* from position p of the chunk; it fails with Io when fewer than 4 bytes  *)
(* are left.                                                               *)
(***************************************************************************)
HasWord(chunk, p) == p + 3 <= Len(chunk)

read_u32_le(chunk, p) == u32_from_le(chunk, p)
read_i32_le(chunk, p) == i32_from_le(chunk, p)
\* an f32 is carried as its bit pattern
read_f32_le(chunk, p) == u32_from_le(chunk, p)

\* the index of the first NUL of string_block at or after position i
\* (1-based), or 0 when there is none
RECURSIVE NulFrom(_, _)
NulFrom(string_block, i) ==
    IF i > Len(string_block) THEN 0
    ELSE IF string_block[i] = 0 THEN i
    ELSE NulFrom(string_block, i + 1)

\* the bytes of string_block after `start` bytes and before the NUL at
\* index nul; no NUL (nul = 0) ends the run (status "Panic")
SliceToNul(string_block, start, nul) ==
    IF nul = 0
    THEN [status |-> "Panic", v |-> <<>>]
    ELSE [status |-> "Ok", v |-> SubSeq(string_block, start + 1, nul - 1)]

\* get_string_as_vec: the bytes from the offset up to the next NUL.  An
\* offset outside the block, or a string that runs to the end of the block
\* without a NUL, ends the run.
get_string_as_vec(off, string_block) ==
    SliceToNul(string_block, AsUsize(off),
               IF AsUsize(off) < Len(string_block)
               THEN NulFrom(string_block, AsUsize(off) + 1) ELSE 0)

\* String::from_utf8 succeeds on valid UTF-8.  The byte alphabet of the
\* model holds ASCII bytes and 255; a sequence over it is valid UTF-8
\* exactly when it holds no byte above 127.
from_utf8_ok(v) == \A i \in 1..Len(v) : v[i] < 128

(***************************************************************************)
(* Field descriptors.  The generator emits, per table, one decode fragment *)
(* per schema field in read, one encode fragment per field in write, and   *)
(* one fragment per string-bearing field in write_string_block and in      *)
(* string_block_size.  Each of these four sequences is modelled as the     *)
(* sequence of its fragments, a fragment being the field it handles, the   *)
(* kind of fragment and (for arrays) the element count.                    *)
(*   "i32" "u32" "f32"      a 4-byte scalar                                *)
(*   "key_i32" "key_u32"    a primary or foreign key (newtype with .id)    *)
(*   "string"               a string_ref                                   *)
(*   "string_array"         string_ref[n]                                  *)
(*   "i32_array"            int32[n]                                       *)
(*   "localized"            LocalizedString: 8 locales + flags             *)
(*   "extended_localized"   ExtendedLocalizedString: 16 locales + flags    *)
(*   "ServerCategory" ...   an enum of wow_world_base, by its name          *)
(***************************************************************************)
Field(name, ty, n) == [name |-> name, ty |-> ty, n |-> n]

LocaleCount(ty) == IF ty = "localized" THEN 8 ELSE 16

\* a key value: the newtype around its integer
Key(id) == [id |-> id]

\* a localized string value: its locale slots and its flags word
Localized(strings, flags) == [strings |-> strings, flags |-> flags]

(***************************************************************************)
(* The enums of wow_world_base::vanilla that Cfg_Categories refers to: the *)
(* variants with their integer values.  A value of an enum type is the     *)
(* name of a variant.                                                      *)
(***************************************************************************)
Variant(name, value) == [name |-> name, value |-> value]

ServerCategory ==
    [name |-> "ServerCategory",
     variants |-> { Variant("One", 1), Variant("Two", 2), Variant("Three", 3),
                    Variant("Five", 5) }]

ServerRegion ==
    [name |-> "ServerRegion",
     variants |-> { Variant("UnitedStates", 1), Variant("Korea", 2),
                    Variant("Europe", 3), Variant("Taiwan", 4),
                    Variant("China", 5), Variant("TestServer", 99),
                    Variant("QaServer", 101) }]

Enums == {ServerCategory, ServerRegion}

EnumNames == {E.name : E \in Enums}

EnumOf(name) == CHOOSE E \in Enums : E.name = name

\* the variants of E whose value is the integer w (one or none)
VariantsOf(E, w) == {x \in E.variants : FromInt(x.value) = w}

\* variant.as_int()
as_int(E, variant) == (CHOOSE x \in E.variants : x.name = variant).value

(***************************************************************************)
(* read: decoding one record chunk.  A decode step yields a status, the    *)
(* value decoded and the position in the chunk after it; the steps of a    *)
(* loop thread such a result (the values so far, the position) through.    *)
(***************************************************************************)
FieldOk(v, next) == [status |-> "Ok", err |-> NoError, v |-> v, next |-> next]
FieldErr(e) == [status |-> "Err", err |-> e, v |-> <<>>, next |-> 0]
FieldPanic == [status |-> "Panic", err |-> NoError, v |-> <<>>, next |-> 0]

\* String::from_utf8(s)? on the bytes g that get_string_as_vec returned
StringFromVec(g, next) ==
    IF g.status = "Panic" THEN FieldPanic
    ELSE IF ~from_utf8_ok(g.v) THEN FieldErr(InvalidString)
    ELSE FieldOk(g.v, next)

\* variant: offset 0 is taken for the empty string without a look at the
\* block
ReadString_ZeroIsEmpty(chunk, p, string_block) ==
    IF ~HasWord(chunk, p) THEN FieldErr(IoError)
    ELSE IF read_u32_le(chunk, p) = W0 THEN FieldOk(<<>>, p + 4)
    ELSE StringFromVec(get_string_as_vec(read_u32_le(chunk, p), string_block),
                       p + 4)

\* { let s = get_string_as_vec(chunk, &string_block)?; String::from_utf8(s)? }
ReadString(chunk, p, string_block) ==
    IF ~HasWord(chunk, p) THEN FieldErr(IoError)
    ELSE StringFromVec(get_string_as_vec(read_u32_le(chunk, p), string_block),
                       p + 4)

\* arr.push(i), or the error of the element read
PushValue(acc, r) ==
    IF r.status # "Ok" THEN r ELSE FieldOk(Append(acc.v, r.v), r.next)

\* n string_refs in a row: for _ in 0..n { ...; arr.push(i) }
RECURSIVE ReadStrings(_, _, _, _)
ReadStrings(n, chunk, string_block, acc) ==
    IF n = 0 \/ acc.status # "Ok" THEN acc
    ELSE ReadStrings(n - 1, chunk, string_block,
                     PushValue(acc, ReadString(chunk, acc.next, string_block)))

\* read_i32_le(chunk)? as a decode step
ReadI32(chunk, p) ==
    IF ~HasWord(chunk, p) THEN FieldErr(IoError)
    ELSE FieldOk(read_i32_le(chunk, p), p + 4)

\* read_u32_le(chunk)? as a decode step
ReadU32(chunk, p) ==
    IF ~HasWord(chunk, p) THEN FieldErr(IoError)
    ELSE FieldOk(read_u32_le(chunk, p), p + 4)

\* read_f32_le(chunk)? as a decode step
ReadF32(chunk, p) ==
    IF ~HasWord(chunk, p) THEN FieldErr(IoError)
    ELSE FieldOk(read_f32_le(chunk, p), p + 4)

\* read_array_i32::<n>
RECURSIVE read_array_i32(_, _, _)
read_array_i32(n, chunk, acc) ==
    IF n = 0 \/ acc.status # "Ok" THEN acc
    ELSE read_array_i32(n - 1, chunk, PushValue(acc, ReadI32(chunk, acc.next)))

\* the flags word after the locale slots
WithFlags(strs, flags) ==
    IF strs.status # "Ok" THEN strs
    ELSE IF flags.status # "Ok" THEN flags
    ELSE FieldOk(Localized(strs.v, flags.v), flags.next)

\* the position after a decode step, or the end of the chunk when it failed
NextOf(r, chunk) == IF r.status = "Ok" THEN r.next ELSE Len(chunk) + 1

\* the locale slots read, then the flags word
LocalizedFrom(strs, chunk) == WithFlags(strs, ReadU32(chunk, NextOf(strs, chunk)))

\* read_localized_string / read_extended_localized_string: the locale
\* slots as string_refs, then the flags word
read_localized_string(locales, chunk, p, string_block) ==
    LocalizedFrom(ReadStrings(locales, chunk, string_block, FieldOk(<<>>, p)),
                  chunk)

\* v.try_into()? for an enum E: the variant whose value is v, or the error
enum_try_into(E, r) ==
    IF r.status # "Ok" THEN r
    ELSE IF VariantsOf(E, r.v) = {} THEN FieldErr(InvalidEnumValue(E.name, r.v))
    ELSE FieldOk((CHOOSE x \in VariantsOf(E, r.v) : TRUE).name, r.next)

\* crate::util::read_i32_le(chunk)?.try_into()?
ReadEnum(E, chunk, p) == enum_try_into(E, ReadI32(chunk, p))

\* variant: a key of 0 is refused
NewKey_NoZero(r) ==
    IF r.status # "Ok" THEN r
    ELSE IF r.v = W0 THEN FieldErr(IoError)
    ELSE FieldOk(Key(r.v), r.next)

\* Key::new(read_i32_le(chunk)?) / Key::new(read_u32_le(chunk)?)
NewKey(r) == IF r.status # "Ok" THEN r ELSE FieldOk(Key(r.v), r.next)

\* the decode fragment of one field
DecodeField(f, chunk, p, string_block) ==
    CASE f.ty = "string" -> ReadString(chunk, p, string_block)
      [] f.ty = "string_array" ->
            ReadStrings(f.n, chunk, string_block, FieldOk(<<>>, p))
      [] f.ty = "i32_array" -> read_array_i32(f.n, chunk, FieldOk(<<>>, p))
      [] f.ty \in {"localized", "extended_localized"} ->
            read_localized_string(LocaleCount(f.ty), chunk, p, string_block)
      [] f.ty = "i32" -> ReadI32(chunk, p)
      [] f.ty = "u32" -> ReadU32(chunk, p)
      [] f.ty = "f32" -> ReadF32(chunk, p)
      [] f.ty = "key_i32" -> NewKey(ReadI32(chunk, p))
      [] f.ty = "key_u32" -> NewKey(ReadU32(chunk, p))
      [] f.ty \in EnumNames -> ReadEnum(EnumOf(f.ty), chunk, p)

\* the decoded value bound to its field of the row under construction
SetField(acc, name, r) ==
    IF r.status # "Ok" THEN r ELSE FieldOk(acc.v @@ (name :> r.v), r.next)

\* the body of the chunk loop: the fields in the order of the decode
\* sequence; acc holds the row so far and the position in the chunk
RECURSIVE DecodeRow(_, _, _, _, _)
DecodeRow(fields, i, chunk, string_block, acc) ==
    IF i > Len(fields) \/ acc.status # "Ok" THEN acc
    ELSE DecodeRow(fields, i + 1, chunk, string_block,
                   SetField(acc, fields[i].name,
                            DecodeField(fields[i], chunk, acc.next, string_block)))

EmptyRow == [x \in {} |-> 0]

Min(a, b) == IF a < b THEN a ELSE b

\* the chunk of r.chunks(record_size) that starts at position start: it is
\* shorter than record_size when the region ends before
Chunk(r, start, record_size) ==
    SubSeq(r, start, Min(start + record_size - 1, Len(r)))

\* rows.push(Row { ... }), or the error of the row's decoding
PushRow(acc, record_size, d) ==
    IF d.status # "Ok" THEN d
    ELSE FieldOk(Append(acc.v, d.v), acc.next + record_size)

\* for mut chunk in r.chunks(record_size) { ... }; acc holds the rows so
\* far and the start of the next chunk
RECURSIVE ReadChunks(_, _, _, _, _)
ReadChunks(fields, record_size, r, string_block, acc) ==
    IF acc.status # "Ok" \/ acc.next > Len(r) THEN acc
    ELSE ReadChunks(fields, record_size, r, string_block,
                    PushRow(acc, record_size,
                            DecodeRow(fields, 1, Chunk(r, acc.next, record_size),
                                      string_block, FieldOk(EmptyRow, 1))))

(***************************************************************************)
(* read.  T is the generated table (its constants and its decode           *)
(* sequence), b the bytes the reader yields, bld the build profile.        *)
(***************************************************************************)
\* the u32 product, checked (debug build) or wrapped (release build)
CheckedOrWrapped(product, bld) ==
    IF InU32(product) THEN [status |-> "Ok", size |-> AsUsize(product)]
    ELSE IF bld = "debug" THEN [status |-> "Panic", size |-> 0]
    ELSE [status |-> "Ok", size |-> AsUsize(AsU32(product))]

\* (header.record_count * header.record_size) as usize, a u32
\* multiplication: a debug build panics when the product does not fit in
\* 32 bits, a release build wraps it.
RecordRegionSize(header, bld) ==
    CheckedOrWrapped(WMul(header.record_count, AsUsize(header.record_size)), bld)

\* Ok(Table { rows }), or the error of the chunk loop
ReadResult(d, consumed) ==
    IF d.status = "Panic" THEN Panic(consumed)
    ELSE IF d.status = "Err" THEN Err(d.err, consumed)
    ELSE Ok(d.v, consumed)

\* the string block read into its buffer, then the chunk loop; after_r is
\* the number of bytes consumed up to the end of the record region
ReadStringBlock(T, b, header, after_r, block_size) ==
    IF block_size > Len(b) - after_r THEN Err(IoError, after_r)
    ELSE ReadResult(ReadChunks(T.read, AsUsize(header.record_size),
                               SubSeq(b, HEADER_SIZE + 1, after_r),
                               SubSeq(b, after_r + 1, after_r + block_size),
                               FieldOk(<<>>, 1)),
                    after_r + block_size)

\* the record region read into its buffer r
ReadRegion(T, b, header, region) ==
    IF region.status = "Panic" THEN Panic(HEADER_SIZE)
    ELSE IF region.size > Len(b) - HEADER_SIZE THEN Err(IoError, HEADER_SIZE)
    ELSE ReadStringBlock(T, b, header, HEADER_SIZE + region.size,
                         IF T.read_string_block
                         THEN AsUsize(header.string_block_size) ELSE 0)

\* variant: field_count is compared before record_size
CheckHeader_FieldCountFirst(T, b, header, bld) ==
    IF header.field_count # AsU32(FromInt(T.FIELD_COUNT))
    THEN Err(FieldCountError(AsU32(FromInt(T.FIELD_COUNT)), header.field_count),
             HEADER_SIZE)
    ELSE IF header.record_size # AsU32(FromInt(T.ROW_SIZE))
    THEN Err(RecordSizeError(AsU32(FromInt(T.ROW_SIZE)), header.record_size),
             HEADER_SIZE)
    ELSE ReadRegion(T, b, header, RecordRegionSize(header, bld))

\* variant: field_count is not compared
CheckHeader_NoFieldCount(T, b, header, bld) ==
    IF header.record_size # AsU32(FromInt(T.ROW_SIZE))
    THEN Err(RecordSizeError(AsU32(FromInt(T.ROW_SIZE)), header.record_size),
             HEADER_SIZE)
    ELSE ReadRegion(T, b, header, RecordRegionSize(header, bld))

\* the two header checks of read
CheckHeader(T, b, header, bld) ==
    IF header.record_size # AsU32(FromInt(T.ROW_SIZE))
    THEN Err(RecordSizeError(AsU32(FromInt(T.ROW_SIZE)), header.record_size),
             HEADER_SIZE)
    ELSE IF header.field_count # AsU32(FromInt(T.FIELD_COUNT))
    THEN Err(FieldCountError(AsU32(FromInt(T.FIELD_COUNT)), header.field_count),
             HEADER_SIZE)
    ELSE ReadRegion(T, b, header, RecordRegionSize(header, bld))

\* variant: the body the header declares is looked for before the header
\* fields are compared
AfterParse_BodyFirst(T, b, parsed, bld) ==
    IF ~parsed.ok THEN Err(MagicError, HEADER_SIZE)
    ELSE IF AsUsize(parsed.header.record_count)
              * AsUsize(parsed.header.record_size) > Len(b) - HEADER_SIZE
    THEN Err(IoError, HEADER_SIZE)
    ELSE CheckHeader(T, b, parsed.header, bld)

\* let header = parse_header(&header)?;
AfterParse(T, b, parsed, bld) ==
    IF ~parsed.ok THEN Err(MagicError, HEADER_SIZE)
    ELSE CheckHeader(T, b, parsed.header, bld)

read(T, b, bld) ==
    IF Len(b) < HEADER_SIZE THEN Err(IoError, 0)
    ELSE AfterParse(T, b, parse_header(SubSeq(b, 1, HEADER_SIZE)), bld)

(***************************************************************************)
(* write: the record loop.  w is the state the loop threads through: the   *)
(* bytes written to b so far and the string_index cursor.                  *)
(***************************************************************************)
\* TRUE; a loop that tests it on the state it was handed has that state
\* evaluated before its next step, as the statements of the code are
Strict(x) == x = x

Emit(bytes, string_index) == [bytes |-> bytes, string_index |-> string_index]

\* b.write_all(&v.to_le_bytes())
WriteWord(v, w) == Emit(w.bytes \o to_le_bytes(v), w.string_index)

\* variant: string_index advances by the length of the string alone
WriteStringRef_LenOnly(s, w) ==
    IF s # <<>>
    THEN Emit(w.bytes \o to_le_bytes(AsU32(FromInt(w.string_index))),
              w.string_index + Len(s))
    ELSE Emit(w.bytes \o to_le_bytes(W0), w.string_index)

\* variant: the current string_index is written for an empty string too
WriteStringRef_IndexForEmpty(s, w) ==
    Emit(w.bytes \o to_le_bytes(AsU32(FromInt(w.string_index))),
         IF s # <<>> THEN w.string_index + Len(s) + 1 ELSE w.string_index)

\* if !s.is_empty() { write string_index as u32; string_index += s.len() + 1 }
\* else { write 0_u32 }
WriteStringRef(s, w) ==
    IF s # <<>>
    THEN Emit(w.bytes \o to_le_bytes(AsU32(FromInt(w.string_index))),
              w.string_index + Len(s) + 1)
    ELSE Emit(w.bytes \o to_le_bytes(W0), w.string_index)

\* b.write_all(&(row.category.as_int() as i32).to_le_bytes())
WriteEnum(E, variant, w) == WriteWord(FromInt(as_int(E, variant)), w)

\* the string_ref fragment for each element of strs, in index order
RECURSIVE WriteStringRefs(_, _, _)
WriteStringRefs(strs, i, w) ==
    IF Strict(w) /\ i > Len(strs) THEN w
    ELSE WriteStringRefs(strs, i + 1, WriteStringRef(strs[i], w))

\* for i in row.arr { b.write_all(&i.to_le_bytes()) }
RECURSIVE WriteInts(_, _, _)
WriteInts(arr, i, w) ==
    IF Strict(w) /\ i > Len(arr) THEN w
    ELSE WriteInts(arr, i + 1, WriteWord(arr[i], w))

\* LocalizedString::string_indices_as_array(&mut string_index): the
\* string_ref rule for every locale in order, then the flags word
string_indices_as_array(v, w) ==
    WriteWord(v.flags, WriteStringRefs(v.strings, 1, w))

\* the encode fragment of one field
EncodeField(f, v, w) ==
    CASE f.ty = "string" -> WriteStringRef(v, w)
      [] f.ty = "string_array" -> WriteStringRefs(v, 1, w)
      [] f.ty = "i32_array" -> WriteInts(v, 1, w)
      [] f.ty \in {"localized", "extended_localized"} ->
            string_indices_as_array(v, w)
      [] f.ty \in {"key_i32", "key_u32"} -> WriteWord(v.id, w)
      [] f.ty \in {"i32", "u32", "f32"} -> WriteWord(v, w)
      [] f.ty \in EnumNames -> WriteEnum(EnumOf(f.ty), v, w)

\* the body of `for row in &self.rows`: the fragments in sequence order
RECURSIVE WriteRow(_, _, _, _)
WriteRow(fields, i, row, w) ==
    IF Strict(w) /\ i > Len(fields) THEN w
    ELSE WriteRow(fields, i + 1, row,
                  EncodeField(fields[i], row[fields[i].name], w))

\* for row in &self.rows { ... }
RECURSIVE WriteRecords(_, _, _, _)
WriteRecords(fields, rows, i, w) ==
    IF Strict(w) /\ i > Len(rows) THEN w
    ELSE WriteRecords(fields, rows, i + 1, WriteRow(fields, 1, rows[i], w))

(***************************************************************************)
(* write_string_block and string_block_size.                               *)
(***************************************************************************)
\* if !s.is_empty() { b.write_all(s.as_bytes())?; b.write_all(&[0])?; }
\* variant: the bytes of the string without the NUL after them
BlockOfString_NoTerminator(s, bytes) == IF s # <<>> THEN bytes \o s ELSE bytes

BlockOfString(s, bytes) == IF s # <<>> THEN bytes \o s \o <<0>> ELSE bytes

RECURSIVE BlockOfStrings(_, _, _)
BlockOfStrings(strs, i, bytes) ==
    IF Strict(bytes) /\ i > Len(strs) THEN bytes
    ELSE BlockOfStrings(strs, i + 1, BlockOfString(strs[i], bytes))

\* LocalizedString::string_block_as_array(b)
string_block_as_array(v, bytes) == BlockOfStrings(v.strings, 1, bytes)

\* the fragment of one string-bearing field in write_string_block
BlockOfField(f, v, bytes) ==
    CASE f.ty = "string" -> BlockOfString(v, bytes)
      [] f.ty = "string_array" -> BlockOfStrings(v, 1, bytes)
      [] f.ty \in {"localized", "extended_localized"} ->
            string_block_as_array(v, bytes)

RECURSIVE BlockOfRow(_, _, _, _)
BlockOfRow(fields, i, row, bytes) ==
    IF Strict(bytes) /\ i > Len(fields) THEN bytes
    ELSE BlockOfRow(fields, i + 1, row,
                    BlockOfField(fields[i], row[fields[i].name], bytes))

RECURSIVE BlockOfRows(_, _, _, _)
BlockOfRows(fields, rows, i, bytes) ==
    IF Strict(bytes) /\ i > Len(rows) THEN bytes
    ELSE BlockOfRows(fields, rows, i + 1, BlockOfRow(fields, 1, rows[i], bytes))

\* b.write_all(&[0])?; for row in &self.rows { ... }: the bytes b holds
\* after write_string_block, given the bytes it held before
write_string_block(T, rows, bytes) ==
    BlockOfRows(T.write_string_block, rows, 1, bytes \o <<0>>)

\* if !s.is_empty() { sum += s.len() + 1; }
SizeOfString(s, sum) == IF s # <<>> THEN sum + Len(s) + 1 ELSE sum

RECURSIVE SizeOfStrings(_, _, _)
SizeOfStrings(strs, i, sum) ==
    IF Strict(sum) /\ i > Len(strs) THEN sum
    ELSE SizeOfStrings(strs, i + 1, SizeOfString(strs[i], sum))

\* LocalizedString::string_block_size
localized_string_block_size(v) == SizeOfStrings(v.strings, 1, 0)

\* the fragment of one string-bearing field in string_block_size
SizeOfField(f, v, sum) ==
    CASE f.ty = "string" -> SizeOfString(v, sum)
      [] f.ty = "string_array" -> SizeOfStrings(v, 1, sum)
      [] f.ty \in {"localized", "extended_localized"} ->
            sum + localized_string_block_size(v)

RECURSIVE SizeOfRow(_, _, _, _)
SizeOfRow(fields, i, row, sum) ==
    IF Strict(sum) /\ i > Len(fields) THEN sum
    ELSE SizeOfRow(fields, i + 1, row,
                   SizeOfField(fields[i], row[fields[i].name], sum))

RECURSIVE SizeOfRows(_, _, _, _)
SizeOfRows(fields, rows, i, sum) ==
    IF Strict(sum) /\ i > Len(rows) THEN sum
    ELSE SizeOfRows(fields, rows, i + 1, SizeOfRow(fields, 1, rows[i], sum))

\* let mut sum = 1; for row in &self.rows { ... }; sum as u32
string_block_size(T, rows) ==
    AsU32(FromInt(SizeOfRows(T.string_block_size, rows, 1, 1)))

(***************************************************************************)
(* write.                                                                  *)
(***************************************************************************)
\* variant: the number of rows and the number of fields change places
WriteHeader_FieldsAsRows(T, rows) ==
    DbcHeader(AsU32(FromInt(T.FIELD_COUNT)), AsU32(FromInt(Len(rows))),
              FromInt(T.write_record_size), string_block_size(T, rows))

\* the header that write builds
WriteHeader(T, rows) ==
    DbcHeader(AsU32(FromInt(Len(rows))), AsU32(FromInt(T.FIELD_COUNT)),
              FromInt(T.write_record_size), string_block_size(T, rows))

\* the header, then the record loop with string_index starting at 1, then
\* self.write_string_block(b)
write(T, rows) ==
    write_string_block(T, rows,
        WriteRecords(T.write, rows, 1,
                     Emit(write_header(WriteHeader(T, rows)), 1)).bytes)

(***************************************************************************)
(* Primary keys: the integer types, the conversions into a key type and    *)
(* the lookups of Indexable.                                               *)
(***************************************************************************)
IntTypes ==
    {"u8", "u16", "u32", "u64", "usize", "i8", "i16", "i32", "i64", "isize"}

\* w is a value of the integer type ty; usize and isize are 64 bits wide,
\* and every modelled value lies within the 64-bit ranges but for the sign
InType(ty, w) ==
    CASE ty = "u8" -> InU8(w)
      [] ty = "u16" -> InU16(w)
      [] ty = "u32" -> InU32(w)
      [] ty \in {"u64", "usize"} -> 0 <= Hi(w)
      [] ty = "i8" -> InI8(w)
      [] ty = "i16" -> InI16(w)
      [] ty = "i32" -> InI32(w)
      [] ty \in {"i64", "isize"} -> TRUE

\* `v as i32` and `v as u32`: the low 32 bits, read with the sign of ty
Wrapping(ty, w) ==
    IF ty = "i32" THEN W(((Hi(w) + 32768) % Half) - 32768, Lo(w))
    ELSE AsU32(w)

\* a key type: the type of its id and the source types of its From and
\* TryFrom impls
KeyType(name, id, from, try_from) ==
    [name |-> name, id |-> id, From |-> from, TryFrom |-> try_from]

NoPrimaryKey == KeyType("none", "none", {}, {})

\* Result<Key, V> of a conversion and Option<&Row> of a lookup: the id of
\* the key or of the row found, the value handed back as the error, and the
\* index of the row found (from 1)
KeyOk(id) == [status |-> "Ok", id |-> id, err |-> W0, index |-> 0]
KeyErr(v) == [status |-> "Err", id |-> W0, err |-> v, index |-> 0]
Some(rows, i) == [status |-> "Some", id |-> rows[i].id.id, err |-> W0, index |-> i]
None == [status |-> "None", id |-> W0, err |-> W0, index |-> 0]

\* fn from(v: V) -> Self { Self::new(v.into()) }
from(K, v) == KeyOk(v)

\* variant: `v as i32` in place of the checked conversion
try_from_Wrapping(K, v) == KeyOk(Wrapping(K.id, v))

\* fn try_from(v: V) -> Result<Self, V> {
\*     Ok(TryInto::<i32>::try_into(v).ok().ok_or(v)?.into()) }
try_from(K, v) == IF InType(K.id, v) THEN KeyOk(v) ELSE KeyErr(v)

\* key.try_into() for a key of the integer type ty: the TryFrom impl, or the
\* From impl, which cannot fail
try_into(K, ty, v) == IF ty \in K.From THEN from(K, v) ELSE try_from(K, v)

\* variant: the last row of the rows from i on whose id is the key's
RECURSIVE find_Last(_, _, _)
find_Last(rows, i, id) ==
    IF i > Len(rows) THEN 0
    ELSE IF find_Last(rows, i + 1, id) # 0 THEN find_Last(rows, i + 1, id)
    ELSE IF rows[i].id.id = id THEN i
    ELSE 0

\* self.rows.iter().find(|a| a.id.id == key.id): the index of the first row
\* from i on whose id is the key's, 0 when there is none
RECURSIVE find(_, _, _)
find(rows, i, id) ==
    IF i > Len(rows) THEN 0
    ELSE IF rows[i].id.id = id THEN i
    ELSE find(rows, i + 1, id)

Found(rows, i) == IF i = 0 THEN None ELSE Some(rows, i)

\* let key = key.try_into().ok()?; self.rows.iter().find(...)
Lookup(rows, key) ==
    IF key.status # "Ok" THEN None ELSE Found(rows, find(rows, 1, key.id))

get(T, rows, ty, v) == Lookup(rows, try_into(T.PrimaryKey, ty, v))

\* let key = key.try_into().ok()?; self.rows.iter_mut().find(...)
LookupMut(rows, key) ==
    IF key.status # "Ok" THEN None ELSE Found(rows, find(rows, 1, key.id))

get_mut(T, rows, ty, v) == LookupMut(rows, try_into(T.PrimaryKey, ty, v))

(***************************************************************************)
(* The generated tables.                                                   *)
(***************************************************************************)
(* wrath_tables/file_data.rs *)
FileData_FIELD_COUNT == 3

FileData_ROW_SIZE == 12

\* the fields of FileDataRow, in declaration order
FileDataRow ==
    << Field("id", "key_i32", 1),
       Field("filename", "string", 1),
       Field("filepath", "string", 1) >>

\* the decode sequence of FileData::read
FileData_read ==
    << Field("id", "key_i32", 1),
       Field("filename", "string", 1),
       Field("filepath", "string", 1) >>

\* the record_size literal in the header that FileData::write builds
FileData_write_record_size == 12

\* the encode sequence of FileData::write
FileData_write ==
    << Field("id", "key_i32", 1),
       Field("filename", "string", 1),
       Field("filepath", "string", 1) >>

\* the fragments of FileData::write_string_block
FileData_write_string_block ==
    << Field("filename", "string", 1),
       Field("filepath", "string", 1) >>

\* the fragments of FileData::string_block_size
FileData_string_block_size ==
    << Field("filename", "string", 1),
       Field("filepath", "string", 1) >>

\* FileDataKey: pub id: i32, and its From and TryFrom impls
FileDataKey ==
    KeyType("FileDataKey", "i32",
            {"u8", "u16", "i8", "i16", "i32"},
            {"u32", "usize", "u64", "i64", "isize"})

FileData ==
    [name |-> "FileData", version |-> "wrath", module |-> "file_data",
     PrimaryKey |-> FileDataKey, FIELD_COUNT |-> FileData_FIELD_COUNT, ROW_SIZE |-> FileData_ROW_SIZE,
     row |-> FileDataRow, read |-> FileData_read, read_string_block |-> TRUE,
     write_record_size |-> FileData_write_record_size, write |-> FileData_write,
     write_string_block |-> FileData_write_string_block,
     string_block_size |-> FileData_string_block_size]

(* tbc_tables/attack_anim_types.rs *)
AttackAnimTypes_FIELD_COUNT == 2

AttackAnimTypes_ROW_SIZE == 8

\* the fields of AttackAnimTypesRow, in declaration order
AttackAnimTypesRow ==
    << Field("anim_id", "i32", 1),
       Field("anim_name", "string", 1) >>

\* the decode sequence of AttackAnimTypes::read
AttackAnimTypes_read ==
    << Field("anim_id", "i32", 1),
       Field("anim_name", "string", 1) >>

\* the record_size literal in the header that AttackAnimTypes::write builds
AttackAnimTypes_write_record_size == 8

\* the encode sequence of AttackAnimTypes::write
AttackAnimTypes_write ==
    << Field("anim_id", "i32", 1),
       Field("anim_name", "string", 1) >>

\* the fragments of AttackAnimTypes::write_string_block
AttackAnimTypes_write_string_block ==
    << Field("anim_name", "string", 1) >>

\* the fragments of AttackAnimTypes::string_block_size
AttackAnimTypes_string_block_size ==
    << Field("anim_name", "string", 1) >>

AttackAnimTypes ==
    [name |-> "AttackAnimTypes", version |-> "tbc", module |-> "attack_anim_types",
     PrimaryKey |-> NoPrimaryKey, FIELD_COUNT |-> AttackAnimTypes_FIELD_COUNT, ROW_SIZE |-> AttackAnimTypes_ROW_SIZE,
     row |-> AttackAnimTypesRow, read |-> AttackAnimTypes_read, read_string_block |-> TRUE,
     write_record_size |-> AttackAnimTypes_write_record_size, write |-> AttackAnimTypes_write,
     write_string_block |-> AttackAnimTypes_write_string_block,
     string_block_size |-> AttackAnimTypes_string_block_size]

(* tbc_tables/sound_entries.rs *)
SoundEntries_FIELD_COUNT == 29

SoundEntries_ROW_SIZE == 116

\* the fields of SoundEntriesRow, in declaration order
SoundEntriesRow ==
    << Field("id", "key_i32", 1),
       Field("sound_type", "i32", 1),
       Field("name", "string", 1),
       Field("file", "string_array", 10),
       Field("freq", "i32_array", 10),
       Field("directory_base", "string", 1),
       Field("volume_float", "f32", 1),
       Field("flags", "i32", 1),
       Field("min_distance", "f32", 1),
       Field("distance_cutoff", "f32", 1),
       Field("e_a_x_def", "i32", 1) >>

\* the decode sequence of SoundEntries::read
SoundEntries_read ==
    << Field("id", "key_i32", 1),
       Field("sound_type", "i32", 1),
       Field("name", "string", 1),
       Field("file", "string_array", 10),
       Field("freq", "i32_array", 10),
       Field("directory_base", "string", 1),
       Field("volume_float", "f32", 1),
       Field("flags", "i32", 1),
       Field("min_distance", "f32", 1),
       Field("distance_cutoff", "f32", 1),
       Field("e_a_x_def", "i32", 1) >>

\* variant: four bytes for each field of the row struct
SoundEntries_write_record_size_PerField == 4 * Len(SoundEntriesRow)

\* the record_size literal in the header that SoundEntries::write builds
SoundEntries_write_record_size == 116

\* the encode sequence of SoundEntries::write
SoundEntries_write ==
    << Field("id", "key_i32", 1),
       Field("sound_type", "i32", 1),
       Field("name", "string", 1),
       Field("file", "string_array", 10),
       Field("freq", "i32_array", 10),
       Field("directory_base", "string", 1),
       Field("volume_float", "f32", 1),
       Field("flags", "i32", 1),
       Field("min_distance", "f32", 1),
       Field("distance_cutoff", "f32", 1),
       Field("e_a_x_def", "i32", 1) >>

\* variant: directory_base placed before the file array
SoundEntries_write_string_block_Swapped ==
    << Field("name", "string", 1),
       Field("directory_base", "string", 1),
       Field("file", "string_array", 10) >>

\* the fragments of SoundEntries::write_string_block
SoundEntries_write_string_block ==
    << Field("name", "string", 1),
       Field("file", "string_array", 10),
       Field("directory_base", "string", 1) >>

\* variant: directory_base is not counted
SoundEntries_string_block_size_Short ==
    << Field("name", "string", 1),
       Field("file", "string_array", 10) >>

\* the fragments of SoundEntries::string_block_size
SoundEntries_string_block_size ==
    << Field("name", "string", 1),
       Field("file", "string_array", 10),
       Field("directory_base", "string", 1) >>

\* SoundEntriesKey: pub id: i32, and its From and TryFrom impls
SoundEntriesKey ==
    KeyType("SoundEntriesKey", "i32",
            {"u8", "u16", "i8", "i16", "i32"},
            {"u32", "usize", "u64", "i64", "isize"})

SoundEntries ==
    [name |-> "SoundEntries", version |-> "tbc", module |-> "sound_entries",
     PrimaryKey |-> SoundEntriesKey, FIELD_COUNT |-> SoundEntries_FIELD_COUNT, ROW_SIZE |-> SoundEntries_ROW_SIZE,
     row |-> SoundEntriesRow, read |-> SoundEntries_read, read_string_block |-> TRUE,
     write_record_size |-> SoundEntries_write_record_size, write |-> SoundEntries_write,
     write_string_block |-> SoundEntries_write_string_block,
     string_block_size |-> SoundEntries_string_block_size]

(* tbc_tables/lock_type.rs *)
LockType_FIELD_COUNT == 53

LockType_ROW_SIZE == 212

\* the fields of LockTypeRow, in declaration order
LockTypeRow ==
    << Field("id", "key_i32", 1),
       Field("name_lang", "extended_localized", 1),
       Field("resource_name_lang", "extended_localized", 1),
       Field("verb_lang", "extended_localized", 1),
       Field("cursor_name", "string", 1) >>

\* the decode sequence of LockType::read
LockType_read ==
    << Field("id", "key_i32", 1),
       Field("name_lang", "extended_localized", 1),
       Field("resource_name_lang", "extended_localized", 1),
       Field("verb_lang", "extended_localized", 1),
       Field("cursor_name", "string", 1) >>

\* the record_size literal in the header that LockType::write builds
LockType_write_record_size == 212

\* variant: verb_lang is written before resource_name_lang
LockType_write_VerbFirst ==
    << Field("id", "key_i32", 1),
       Field("name_lang", "extended_localized", 1),
       Field("verb_lang", "extended_localized", 1),
       Field("resource_name_lang", "extended_localized", 1),
       Field("cursor_name", "string", 1) >>

\* the encode sequence of LockType::write
LockType_write ==
    << Field("id", "key_i32", 1),
       Field("name_lang", "extended_localized", 1),
       Field("resource_name_lang", "extended_localized", 1),
       Field("verb_lang", "extended_localized", 1),
       Field("cursor_name", "string", 1) >>

\* the fragments of LockType::write_string_block
LockType_write_string_block ==
    << Field("name_lang", "extended_localized", 1),
       Field("resource_name_lang", "extended_localized", 1),
       Field("verb_lang", "extended_localized", 1),
       Field("cursor_name", "string", 1) >>

\* the fragments of LockType::string_block_size
LockType_string_block_size ==
    << Field("name_lang", "extended_localized", 1),
       Field("resource_name_lang", "extended_localized", 1),
       Field("verb_lang", "extended_localized", 1),
       Field("cursor_name", "string", 1) >>

\* LockTypeKey: pub id: i32, and its From and TryFrom impls
LockTypeKey ==
    KeyType("LockTypeKey", "i32",
            {"u8", "u16", "i8", "i16", "i32"},
            {"u32", "usize", "u64", "i64", "isize"})

LockType ==
    [name |-> "LockType", version |-> "tbc", module |-> "lock_type",
     PrimaryKey |-> LockTypeKey, FIELD_COUNT |-> LockType_FIELD_COUNT, ROW_SIZE |-> LockType_ROW_SIZE,
     row |-> LockTypeRow, read |-> LockType_read, read_string_block |-> TRUE,
     write_record_size |-> LockType_write_record_size, write |-> LockType_write,
     write_string_block |-> LockType_write_string_block,
     string_block_size |-> LockType_string_block_size]

(* vanilla_tables/spell_range.rs *)
SpellRange_FIELD_COUNT == 22

SpellRange_ROW_SIZE == 88

\* the fields of SpellRangeRow, in declaration order
SpellRangeRow ==
    << Field("id", "key_u32", 1),
       Field("range_min", "f32", 1),
       Field("range_max", "f32", 1),
       Field("flags", "i32", 1),
       Field("display_name", "localized", 1),
       Field("display_name_short", "localized", 1) >>

\* the decode sequence of SpellRange::read
SpellRange_read ==
    << Field("id", "key_u32", 1),
       Field("range_min", "f32", 1),
       Field("range_max", "f32", 1),
       Field("flags", "i32", 1),
       Field("display_name", "localized", 1),
       Field("display_name_short", "localized", 1) >>

\* the record_size literal in the header that SpellRange::write builds
SpellRange_write_record_size == 88

\* the encode sequence of SpellRange::write
SpellRange_write ==
    << Field("id", "key_u32", 1),
       Field("range_min", "f32", 1),
       Field("range_max", "f32", 1),
       Field("flags", "i32", 1),
       Field("display_name", "localized", 1),
       Field("display_name_short", "localized", 1) >>

\* the fragments of SpellRange::write_string_block
SpellRange_write_string_block ==
    << Field("display_name", "localized", 1),
       Field("display_name_short", "localized", 1) >>

\* the fragments of SpellRange::string_block_size
SpellRange_string_block_size ==
    << Field("display_name", "localized", 1),
       Field("display_name_short", "localized", 1) >>

\* SpellRangeKey: pub id: u32, and its From and TryFrom impls
SpellRangeKey ==
    KeyType("SpellRangeKey", "u32",
            {"u8", "u16", "u32"},
            {"u64", "usize", "i8", "i16", "i32", "i64", "isize"})

SpellRange ==
    [name |-> "SpellRange", version |-> "vanilla", module |-> "spell_range",
     PrimaryKey |-> SpellRangeKey, FIELD_COUNT |-> SpellRange_FIELD_COUNT, ROW_SIZE |-> SpellRange_ROW_SIZE,
     row |-> SpellRangeRow, read |-> SpellRange_read, read_string_block |-> TRUE,
     write_record_size |-> SpellRange_write_record_size, write |-> SpellRange_write,
     write_string_block |-> SpellRange_write_string_block,
     string_block_size |-> SpellRange_string_block_size]

(* wrath_tables/gt_chance_to_spell_crit_base.rs *)
gtChanceToSpellCritBase_FIELD_COUNT == 1

gtChanceToSpellCritBase_ROW_SIZE == 4

\* the fields of gtChanceToSpellCritBaseRow, in declaration order
gtChanceToSpellCritBaseRow ==
    << Field("data", "f32", 1) >>

\* the decode sequence of gtChanceToSpellCritBase::read
gtChanceToSpellCritBase_read ==
    << Field("data", "f32", 1) >>

\* the record_size literal in the header that gtChanceToSpellCritBase::write
\* builds
gtChanceToSpellCritBase_write_record_size == 4

\* variant: no field is encoded
gtChanceToSpellCritBase_write_NoData == << >>

\* the encode sequence of gtChanceToSpellCritBase::write
gtChanceToSpellCritBase_write ==
    << Field("data", "f32", 1) >>

\* gtChanceToSpellCritBase has neither write_string_block nor
\* string_block_size: write has the literal string_block_size 1 and ends
\* with b.write_all(&[0_u8]), which is what the two helpers give for no
\* string-bearing field; read has no read_exact for the string block
gtChanceToSpellCritBase ==
    [name |-> "gtChanceToSpellCritBase", version |-> "wrath",
     module |-> "gt_chance_to_spell_crit_base",
     PrimaryKey |-> NoPrimaryKey,
     FIELD_COUNT |-> gtChanceToSpellCritBase_FIELD_COUNT,
     ROW_SIZE |-> gtChanceToSpellCritBase_ROW_SIZE,
     row |-> gtChanceToSpellCritBaseRow, read |-> gtChanceToSpellCritBase_read,
     read_string_block |-> FALSE,
     write_record_size |-> gtChanceToSpellCritBase_write_record_size,
     write |-> gtChanceToSpellCritBase_write,
     write_string_block |-> << >>,
     string_block_size |-> << >>]

(* vanilla_tables/cfg_categories.rs *)
Cfg_Categories_FIELD_COUNT == 11

Cfg_Categories_ROW_SIZE == 44

\* the fields of Cfg_CategoriesRow, in declaration order
Cfg_CategoriesRow ==
    << Field("category", "ServerCategory", 1),
       Field("region", "ServerRegion", 1),
       Field("name", "localized", 1) >>

\* the decode sequence of Cfg_Categories::read
Cfg_Categories_read ==
    << Field("category", "ServerCategory", 1),
       Field("region", "ServerRegion", 1),
       Field("name", "localized", 1) >>

\* the record_size literal in the header that Cfg_Categories::write builds
Cfg_Categories_write_record_size == 44

\* variant: region is encoded before category
Cfg_Categories_write_RegionFirst ==
    << Field("region", "ServerRegion", 1),
       Field("category", "ServerCategory", 1),
       Field("name", "localized", 1) >>

\* the encode sequence of Cfg_Categories::write
Cfg_Categories_write ==
    << Field("category", "ServerCategory", 1),
       Field("region", "ServerRegion", 1),
       Field("name", "localized", 1) >>

\* the fragments of Cfg_Categories::write_string_block
Cfg_Categories_write_string_block ==
    << Field("name", "localized", 1) >>

\* the fragments of Cfg_Categories::string_block_size
Cfg_Categories_string_block_size ==
    << Field("name", "localized", 1) >>

Cfg_Categories ==
    [name |-> "Cfg_Categories", version |-> "vanilla", module |-> "cfg_categories",
     PrimaryKey |-> NoPrimaryKey,
     FIELD_COUNT |-> Cfg_Categories_FIELD_COUNT, ROW_SIZE |-> Cfg_Categories_ROW_SIZE,
     row |-> Cfg_CategoriesRow, read |-> Cfg_Categories_read,
     read_string_block |-> TRUE,
     write_record_size |-> Cfg_Categories_write_record_size,
     write |-> Cfg_Categories_write,
     write_string_block |-> Cfg_Categories_write_string_block,
     string_block_size |-> Cfg_Categories_string_block_size]

(* vanilla_tables/world_map_area.rs *)
WorldMapArea_FIELD_COUNT == 8

WorldMapArea_ROW_SIZE == 32

\* the fields of WorldMapAreaRow, in declaration order
WorldMapAreaRow ==
    << Field("id", "key_u32", 1),
       Field("world_map_continent", "key_u32", 1),
       Field("area_table", "key_u32", 1),
       Field("area_name", "string", 1),
       Field("location_left", "f32", 1),
       Field("location_right", "f32", 1),
       Field("location_top", "f32", 1),
       Field("location_bottom", "f32", 1) >>

\* the decode sequence of WorldMapArea::read
WorldMapArea_read ==
    << Field("id", "key_u32", 1),
       Field("world_map_continent", "key_u32", 1),
       Field("area_table", "key_u32", 1),
       Field("area_name", "string", 1),
       Field("location_left", "f32", 1),
       Field("location_right", "f32", 1),
       Field("location_top", "f32", 1),
       Field("location_bottom", "f32", 1) >>

\* the record_size literal in the header that WorldMapArea::write builds
WorldMapArea_write_record_size == 32

\* the encode sequence of WorldMapArea::write
WorldMapArea_write ==
    << Field("id", "key_u32", 1),
       Field("world_map_continent", "key_u32", 1),
       Field("area_table", "key_u32", 1),
       Field("area_name", "string", 1),
       Field("location_left", "f32", 1),
       Field("location_right", "f32", 1),
       Field("location_top", "f32", 1),
       Field("location_bottom", "f32", 1) >>

\* the fragments of WorldMapArea::write_string_block
WorldMapArea_write_string_block ==
    << Field("area_name", "string", 1) >>

\* the fragments of WorldMapArea::string_block_size
WorldMapArea_string_block_size ==
    << Field("area_name", "string", 1) >>

\* WorldMapAreaKey: pub id: u32, and its From and TryFrom impls
WorldMapAreaKey ==
    KeyType("WorldMapAreaKey", "u32",
            {"u8", "u16", "u32"},
            {"u64", "usize", "i8", "i16", "i32", "i64", "isize"})

WorldMapArea ==
    [name |-> "WorldMapArea", version |-> "vanilla", module |-> "world_map_area",
     PrimaryKey |-> WorldMapAreaKey,
     FIELD_COUNT |-> WorldMapArea_FIELD_COUNT, ROW_SIZE |-> WorldMapArea_ROW_SIZE,
     row |-> WorldMapAreaRow, read |-> WorldMapArea_read,
     read_string_block |-> TRUE,
     write_record_size |-> WorldMapArea_write_record_size,
     write |-> WorldMapArea_write,
     write_string_block |-> WorldMapArea_write_string_block,
     string_block_size |-> WorldMapArea_string_block_size]

(* wrath_tables/achievement_category.rs *)
Achievement_Category_FIELD_COUNT == 20

Achievement_Category_ROW_SIZE == 80

\* the fields of Achievement_CategoryRow, in declaration order
Achievement_CategoryRow ==
    << Field("id", "key_i32", 1),
       Field("parent", "key_i32", 1),
       Field("name_lang", "extended_localized", 1),
       Field("ui_order", "i32", 1) >>

\* the decode sequence of Achievement_Category::read
Achievement_Category_read ==
    << Field("id", "key_i32", 1),
       Field("parent", "key_i32", 1),
       Field("name_lang", "extended_localized", 1),
       Field("ui_order", "i32", 1) >>

\* the record_size literal in the header that Achievement_Category::write
\* builds
Achievement_Category_write_record_size == 80

\* variant: ui_order is not written
Achievement_Category_write_NoUiOrder ==
    << Field("id", "key_i32", 1),
       Field("parent", "key_i32", 1),
       Field("name_lang", "extended_localized", 1) >>

\* the encode sequence of Achievement_Category::write
Achievement_Category_write ==
    << Field("id", "key_i32", 1),
       Field("parent", "key_i32", 1),
       Field("name_lang", "extended_localized", 1),
       Field("ui_order", "i32", 1) >>

\* the fragments of Achievement_Category::write_string_block
Achievement_Category_write_string_block ==
    << Field("name_lang", "extended_localized", 1) >>

\* the fragments of Achievement_Category::string_block_size
Achievement_Category_string_block_size ==
    << Field("name_lang", "extended_localized", 1) >>

\* Achievement_CategoryKey: pub id: i32, and its From and TryFrom impls
Achievement_CategoryKey ==
    KeyType("Achievement_CategoryKey", "i32",
            {"u8", "u16", "i8", "i16", "i32"},
            {"u32", "usize", "u64", "i64", "isize"})

Achievement_Category ==
    [name |-> "Achievement_Category", version |-> "wrath",
     module |-> "achievement_category",
     PrimaryKey |-> Achievement_CategoryKey,
     FIELD_COUNT |-> Achievement_Category_FIELD_COUNT,
     ROW_SIZE |-> Achievement_Category_ROW_SIZE,
     row |-> Achievement_CategoryRow, read |-> Achievement_Category_read,
     read_string_block |-> TRUE,
     write_record_size |-> Achievement_Category_write_record_size,
     write |-> Achievement_Category_write,
     write_string_block |-> Achievement_Category_write_string_block,
     string_block_size |-> Achievement_Category_string_block_size]

Tables ==
    {FileData, AttackAnimTypes, SoundEntries, LockType, SpellRange,
     gtChanceToSpellCritBase, Cfg_Categories, WorldMapArea,
     Achievement_Category}

TableNames == {T.name : T \in Tables}

TableOf(name) == CHOOSE T \in Tables : T.name = name

(***************************************************************************)
(* Inputs: table values.  The strings cover the empty string, one- and     *)
(* two-byte strings and a string with an interior NUL (a Rust String may   *)
(* hold U+0000); the integers cover both signs and the top of u32.         *)
(***************************************************************************)
SeqsUpTo(S, n) == UNION {[1..k -> S] : k \in 0..n}

\* a localized string with n locale slots, empty except where `set` says
Loc(n, set, flags) ==
    Localized([i \in 1..n |-> IF i \in DOMAIN set THEN set[i] ELSE <<>>], flags)

\* a 10-element string array, empty except where `set` says
Arr10(set) == [i \in 1..10 |-> IF i \in DOMAIN set THEN set[i] ELSE <<>>]

OneF32 == W(16256, 0)          \* the bits of 1.0f32, 0x3F800000
MaxU32 == W(65535, 65535)

FileDataRows ==
    { [id |-> Key(i), filename |-> a, filepath |-> b] :
        i \in {FromInt(-1)},
        a \in {<<>>, <<97>>, <<98, 99>>, <<97, 0, 98>>},
        b \in {<<>>, <<97>>, <<98, 99>>} }

AttackAnimTypesRows ==
    { [anim_id |-> i, anim_name |-> a] :
        i \in {FromInt(0), FromInt(-2)},
        a \in {<<>>, <<97>>, <<98, 99>>, <<0>>} }

SoundEntriesRows ==
    { [id |-> Key(FromInt(7)), sound_type |-> FromInt(-3), name |-> a,
       file |-> f, freq |-> [i \in 1..10 |-> FromInt(i - 2)],
       directory_base |-> d, volume_float |-> OneF32, flags |-> FromInt(2),
       min_distance |-> W0, distance_cutoff |-> OneF32,
       e_a_x_def |-> FromInt(-1)] :
        <<a, f, d>> \in
            ({<<>>, <<97>>}
                \X {Arr10(<<>>), Arr10((1 :> <<98, 99>>) @@ (10 :> <<97>>)),
                    Arr10(3 :> <<97>>)}
                \X {<<100>>})
            \cup {<< <<>>, Arr10(<<>>), <<>> >>} }

LockTypeRows ==
    { [id |-> Key(FromInt(1)), name_lang |-> n, resource_name_lang |-> r,
       verb_lang |-> Loc(16, <<>>, W0), cursor_name |-> c] :
        <<n, r, c>> \in
            ({Loc(16, <<>>, W0), Loc(16, 1 :> <<97>>, MaxU32),
              Loc(16, (1 :> <<97>>) @@ (16 :> <<98, 99>>), FromInt(255))}
                \X {Loc(16, <<>>, FromInt(1)), Loc(16, 2 :> <<97>>, W0)}
                \X {<<99>>})
            \cup {<<Loc(16, <<>>, W0), Loc(16, <<>>, FromInt(1)), <<>> >>} }

SpellRangeRows ==
    { [id |-> Key(i), range_min |-> W0, range_max |-> OneF32,
       flags |-> FromInt(-1), display_name |-> n, display_name_short |-> m] :
        i \in {W0, MaxU32},
        n \in {Loc(8, <<>>, W0), Loc(8, 1 :> <<97>>, MaxU32)},
        m \in {Loc(8, <<>>, W0), Loc(8, 8 :> <<97, 98>>, FromInt(1))} }

TwoF32 == W(16384, 0)          \* the bits of 2.0f32, 0x40000000
NaNF32 == W(32704, 0)          \* the bits of a quiet NaN, 0x7FC00000

gtChanceToSpellCritBaseRows ==
    { [data |-> d] : d \in {OneF32, TwoF32, NaNF32} }

Cfg_CategoriesRows ==
    { [category |-> c, region |-> r, name |-> n] :
        c \in {"One", "Five"},
        r \in {"Taiwan", "QaServer"},
        n \in {Loc(8, <<>>, FromInt(3)), Loc(8, 2 :> <<97>>, MaxU32)} }

WorldMapAreaRows ==
    { [id |-> Key(i), world_map_continent |-> Key(c),
       area_table |-> Key(FromInt(999999)), area_name |-> a,
       location_left |-> OneF32, location_right |-> W0,
       location_top |-> TwoF32, location_bottom |-> OneF32] :
        i \in {FromInt(1), MaxU32},
        c \in {W0, FromInt(1)},
        a \in {<<>>, <<97, 98>>} }

Achievement_CategoryRows ==
    { [id |-> Key(FromInt(1)), parent |-> Key(FromInt(-1)), name_lang |-> n,
       ui_order |-> FromInt(2)] :
        n \in {Loc(16, <<>>, W0), Loc(16, (1 :> <<97>>) @@ (16 :> <<98>>), MaxU32)} }

RowsOf(name) ==
    CASE name = "FileData" -> FileDataRows
      [] name = "Achievement_Category" -> Achievement_CategoryRows
      [] name = "AttackAnimTypes" -> AttackAnimTypesRows
      [] name = "SoundEntries" -> SoundEntriesRows
      [] name = "LockType" -> LockTypeRows
      [] name = "SpellRange" -> SpellRangeRows
      [] name = "gtChanceToSpellCritBase" -> gtChanceToSpellCritBaseRows
      [] name = "Cfg_Categories" -> Cfg_CategoriesRows
      [] name = "WorldMapArea" -> WorldMapAreaRows

(***************************************************************************)
(* Inputs: byte streams.  A stream is a header, up to MaxRows records and  *)
(* a string block; `variant` says how the header departs from them.        *)
(***************************************************************************)
RECURSIVE Words(_, _, _)
Words(ws, i, bytes) ==
    IF Strict(bytes) /\ i > Len(ws) THEN bytes
    ELSE Words(ws, i + 1, bytes \o to_le_bytes(ws[i]))

RECURSIVE Flatten(_, _, _)
Flatten(ss, i, bytes) ==
    IF Strict(bytes) /\ i > Len(ss) THEN bytes
    ELSE Flatten(ss, i + 1, bytes \o ss[i])

\* n words, zero except where `set` says
WordsAt(n, set) ==
    Words([i \in 1..n |-> IF i \in DOMAIN set THEN set[i] ELSE W0], 1, <<>>)

FileDataRecords ==
    { Words(<<FromInt(-1), FromInt(a), FromInt(b)>>, 1, <<>>) :
        a \in {0, 1, 3, 6}, b \in {0, 1} }

AttackAnimTypesRecords ==
    { Words(<<FromInt(7), a>>, 1, <<>>) :
        a \in {FromInt(0), FromInt(1), FromInt(2), FromInt(3), FromInt(6), MaxU32} }

SoundEntriesRecords ==
    { WordsAt(29, <<>>),
      WordsAt(29, (3 :> FromInt(1)) @@ (4 :> FromInt(1)) @@ (13 :> FromInt(3))
                  @@ (14 :> FromInt(-5)) @@ (24 :> FromInt(4))) }

LockTypeRecords ==
    { WordsAt(53, 1 :> FromInt(1)),
      WordsAt(53, (1 :> FromInt(2)) @@ (2 :> FromInt(1)) @@ (3 :> FromInt(1))
                  @@ (18 :> MaxU32) @@ (53 :> FromInt(3))),
      WordsAt(53, (34 :> FromInt(3)) @@ (35 :> FromInt(9)) @@ (53 :> FromInt(1))) }

SpellRangeRecords ==
    { WordsAt(22, 1 :> MaxU32),
      WordsAt(22, (2 :> OneF32) @@ (5 :> FromInt(1)) @@ (13 :> FromInt(7))
                  @@ (21 :> FromInt(4))) }

gtChanceToSpellCritBaseRecords ==
    { Words(<<d>>, 1, <<>>) : d \in {OneF32, TwoF32, NaNF32} }

\* category and region with values of the enums and with others (257 is no
\* ServerCategory, -1 no ServerRegion, 0 neither)
Cfg_CategoriesRecords ==
    { WordsAt(11, (1 :> FromInt(c[1])) @@ (2 :> FromInt(c[2])) @@ (3 :> FromInt(1))
                  @@ (11 :> FromInt(7))) :
        c \in {<<5, 101>>, <<1, 4>>} }
    \cup { WordsAt(11, (1 :> FromInt(c[1])) @@ (2 :> FromInt(c[2]))) :
             c \in {<<257, 1>>, <<2, -1>>, <<0, 0>>} }

\* ids and foreign keys: equal ids, 0, 999999 and u32::MAX
WorldMapAreaRecords ==
    { WordsAt(8, (1 :> k[1]) @@ (2 :> k[2]) @@ (3 :> FromInt(999999))
                 @@ (4 :> FromInt(k[3])) @@ (5 :> OneF32)) :
        k \in { <<FromInt(1), W0, 0>>, <<FromInt(1), MaxU32, 1>>,
                <<MaxU32, W0, 1>>, <<MaxU32, MaxU32, 0>> } }

Achievement_CategoryRecords ==
    { WordsAt(20, (1 :> FromInt(1)) @@ (2 :> FromInt(-1))),
      WordsAt(20, (1 :> FromInt(2)) @@ (2 :> FromInt(1)) @@ (3 :> FromInt(1))
                  @@ (18 :> FromInt(3)) @@ (19 :> MaxU32) @@ (20 :> FromInt(7))) }

RecordsOf(name) ==
    CASE name = "FileData" -> FileDataRecords
      [] name = "Achievement_Category" -> Achievement_CategoryRecords
      [] name = "AttackAnimTypes" -> AttackAnimTypesRecords
      [] name = "SoundEntries" -> SoundEntriesRecords
      [] name = "LockType" -> LockTypeRecords
      [] name = "SpellRange" -> SpellRangeRecords
      [] name = "gtChanceToSpellCritBase" -> gtChanceToSpellCritBaseRecords
      [] name = "Cfg_Categories" -> Cfg_CategoriesRecords
      [] name = "WorldMapArea" -> WorldMapAreaRecords

\* string blocks: the minimal one; two strings; a byte that is no UTF-8;
\* a last string without its NUL; a block whose offset 0 is no NUL; none
Blocks ==
    { <<0>>, <<0, 97, 0, 98, 99, 0>>, <<0, 97, 0, 255, 0>>, <<0, 97, 0, 98>>,
      <<97, 0>>, <<>> }

Variants ==
    { "ok", "trailing", "truncated", "header_short", "magic", "record_size",
      "field_count", "size_and_count", "magic_and_size", "magic_and_count",
      "short_records",
      "short_block", "overflow" }

BadMagic == <<87, 68, 66, 50>>     \* "WDB2"

\* the variants read refuses at the header, whatever follows it: these are
\* built with at most one record and with one of two blocks
HeaderFaults ==
    { "header_short", "magic", "record_size", "field_count", "size_and_count",
      "magic_and_size", "magic_and_count" }

FaultBlocks == { <<>>, <<0, 97, 0, 98, 99, 0>> }

Stream(T, recs, block, variant) ==
    LET n == Len(recs)
        record_count ==
            CASE variant = "short_records" -> FromInt(n + 1)
              [] variant = "overflow" -> W(16384, n)      \* 2^30 + n
              [] OTHER -> FromInt(n)
        field_count ==
            IF variant \in {"field_count", "size_and_count", "magic_and_count"}
            THEN FromInt(T.FIELD_COUNT + 1) ELSE FromInt(T.FIELD_COUNT)
        record_size ==
            IF variant \in {"record_size", "size_and_count", "magic_and_size"}
            THEN FromInt(T.ROW_SIZE + 4) ELSE FromInt(T.ROW_SIZE)
        block_size ==
            IF variant = "short_block" THEN FromInt(Len(block) + 1)
            ELSE FromInt(Len(block))
        magic == IF variant \in {"magic", "magic_and_size", "magic_and_count"}
                 THEN BadMagic ELSE MAGIC
        bytes == magic \o Words(<<record_count, field_count, record_size,
                                  block_size>>, 1, <<>>)
                       \o Flatten(recs, 1, <<>>) \o block
    IN  CASE variant = "trailing" -> bytes \o <<1, 2>>
          [] variant = "truncated" -> SubSeq(bytes, 1, Len(bytes) - 1)
          [] variant = "header_short" -> SubSeq(bytes, 1, HEADER_SIZE - 1)
          [] OTHER -> bytes

(***************************************************************************)
(* The codec specification: a run is the round trip of the generated       *)
(* tests, from a table value (write, read) or from bytes (read, write,     *)
(* read).                                                                  *)
(***************************************************************************)
NoKey == [ty |-> "none", v |-> W0]

\* the generator does not run
NoCall == [op |-> "none"]
GenIdle ==
    /\ dirs = <<>>
    /\ gen = [pc |-> "idle"]
    /\ fs = <<>>
    /\ touched = {}
    /\ call = NoCall

InitTable ==
    /\ tbl \in TableNames
    /\ origin = "table"
    /\ build = "release"
    /\ input = <<>>
    /\ table \in SeqsUpTo(RowsOf(tbl), MaxRows)
    /\ res = NoResult
    /\ out = <<>>
    /\ res2 = NoResult
    /\ pc = "loaded"
    /\ ksrc = NoKey
    /\ kres = None
    /\ GenIdle

InitStream ==
    /\ tbl \in TableNames
    /\ origin = "stream"
    /\ \E variant \in Variants :
       \E recs \in SeqsUpTo(RecordsOf(tbl), IF variant \in HeaderFaults THEN 1
                                             ELSE MaxRows),
          block \in (IF variant \in HeaderFaults THEN FaultBlocks ELSE Blocks) :
          /\ input = Stream(TableOf(tbl), recs, block, variant)
          /\ build \in (IF variant = "overflow" THEN {"debug", "release"}
                        ELSE {"release"})
    /\ table = <<>>
    /\ res = NoResult
    /\ out = <<>>
    /\ res2 = NoResult
    /\ pc = "start"
    /\ ksrc = NoKey
    /\ kres = None
    /\ GenIdle

Init == InitTable \/ InitStream

\* let actual = T::read(&mut contents.as_slice())
Read ==
    /\ pc = "start"
    /\ res' = read(TableOf(tbl), input, build)
    /\ IF res'.status = "Ok"
       THEN table' = res'.rows /\ pc' = "loaded"
       ELSE table' = table /\ pc' = "failed"
    /\ UNCHANGED <<tbl, build, origin, input, out, res2, ksrc, kres, genvars>>

\* actual.write(&mut v)
Write ==
    /\ pc = "loaded"
    /\ out' = write(TableOf(tbl), table)
    /\ pc' = "written"
    /\ UNCHANGED <<tbl, build, origin, input, table, res, res2, ksrc, kres, genvars>>

\* let new = T::read(&mut v.as_slice())
ReRead ==
    /\ pc = "written"
    /\ res2' = read(TableOf(tbl), out, build)
    /\ pc' = "reread"
    /\ UNCHANGED <<tbl, build, origin, input, table, res, out, ksrc, kres, genvars>>

Next == Read \/ Write \/ ReRead

Spec == Init /\ [][Next]_vars

(***************************************************************************)
(* The key specification: a table in memory, an integer of some type, and  *)
(* one of the conversion into the key, get, get_mut.                       *)
(***************************************************************************)
KeyedTables == {n \in TableNames : TableOf(n).PrimaryKey # NoPrimaryKey}

\* integers around the bounds of the 8, 16 and 32 bit types
KeyValues ==
    { FromInt(n) : n \in {0, 1, 7, -1, 127, 128, -128, -129, 255, 256,
                          32767, 32768, -32768, -32769} }
    \cup { W(0, 65535), W(1, 0), W(32767, 65535), W(32768, 0), W(32768, 7),
           W(-32768, 0), W(-32769, 65535), MaxU32, W(65536, 0), W(65536, 1),
           W(65536, 7), W(-65536, 1) }

KeySources == {[ty |-> ty, v |-> v] : ty \in IntTypes, v \in KeyValues}

\* the ids of the rows: small ones and the two ends of the id type
KeyIds(K) ==
    IF K.id = "i32"
    THEN {FromInt(1), FromInt(7), FromInt(-1), W(-32768, 0), W(32767, 65535)}
    ELSE {FromInt(1), FromInt(7), MaxU32, W(32768, 0)}

BaseRow(name) == CHOOSE r \in RowsOf(name) : TRUE

KeyRows(name) ==
    {[BaseRow(name) EXCEPT !.id = Key(i)] : i \in KeyIds(TableOf(name).PrimaryKey)}

InitKey ==
    /\ tbl \in KeyedTables
    /\ origin = "table"
    /\ build = "release"
    /\ input = <<>>
    /\ table \in SeqsUpTo(KeyRows(tbl), MaxRows)
    /\ res = NoResult
    /\ out = <<>>
    /\ res2 = NoResult
    /\ pc = "key"
    /\ ksrc \in {k \in KeySources : InType(k.ty, k.v)}
    /\ kres = None
    /\ GenIdle

\* let key: Result<Key, _> = v.try_into()
Convert ==
    /\ pc = "key"
    /\ kres' = try_into(TableOf(tbl).PrimaryKey, ksrc.ty, ksrc.v)
    /\ pc' = "converted"
    /\ UNCHANGED <<tbl, build, origin, input, table, res, out, res2, ksrc, genvars>>

\* table.get(v)
Get ==
    /\ pc = "key"
    /\ kres' = get(TableOf(tbl), table, ksrc.ty, ksrc.v)
    /\ pc' = "got"
    /\ UNCHANGED <<tbl, build, origin, input, table, res, out, res2, ksrc, genvars>>

\* table.get_mut(v)
GetMut ==
    /\ pc = "key"
    /\ kres' = get_mut(TableOf(tbl), table, ksrc.ty, ksrc.v)
    /\ pc' = "got_mut"
    /\ UNCHANGED <<tbl, build, origin, input, table, res, out, res2, ksrc, genvars>>

NextKey == Convert \/ Get \/ GetMut

SpecKey == InitKey /\ [][NextKey]_vars

(***************************************************************************)
(* rxml: the generator.  Names are strings; where the code looks into a    *)
(* name (snake case, ordering) it is taken as its bytes.                   *)
(***************************************************************************)
\* the ASCII bytes of the table names and module names of the model
Spelling(s) ==
    CASE s = "FileData" ->
            <<70, 105, 108, 101, 68, 97, 116, 97>>
      [] s = "AttackAnimTypes" ->
            <<65, 116, 116, 97, 99, 107, 65, 110, 105, 109, 84, 121,
            112, 101, 115>>
      [] s = "SoundEntries" ->
            <<83, 111, 117, 110, 100, 69, 110, 116, 114, 105, 101, 115>>
      [] s = "LockType" ->
            <<76, 111, 99, 107, 84, 121, 112, 101>>
      [] s = "SpellRange" ->
            <<83, 112, 101, 108, 108, 82, 97, 110, 103, 101>>
      [] s = "gtChanceToSpellCritBase" ->
            <<103, 116, 67, 104, 97, 110, 99, 101, 84, 111, 83, 112,
            101, 108, 108, 67, 114, 105, 116, 66, 97, 115, 101>>
      [] s = "Cfg_Categories" ->
            <<67, 102, 103, 95, 67, 97, 116, 101, 103, 111, 114, 105,
            101, 115>>
      [] s = "WorldMapArea" ->
            <<87, 111, 114, 108, 100, 77, 97, 112, 65, 114, 101, 97>>
      [] s = "AreaTable" ->
            <<65, 114, 101, 97, 84, 97, 98, 108, 101>>
      [] s = "WorldMapContinent" ->
            <<87, 111, 114, 108, 100, 77, 97, 112, 67, 111, 110, 116,
            105, 110, 101, 110, 116>>
      [] s = "Achievement_Category" ->
            <<65, 99, 104, 105, 101, 118, 101, 109, 101, 110, 116, 95,
            67, 97, 116, 101, 103, 111, 114, 121>>
      [] s = "achievement_category" ->
            <<97, 99, 104, 105, 101, 118, 101, 109, 101, 110, 116, 95,
            99, 97, 116, 101, 103, 111, 114, 121>>
      [] s = "WMOAreaTable" ->
            <<87, 77, 79, 65, 114, 101, 97, 84, 97, 98, 108, 101>>
      [] s = "file_data" ->
            <<102, 105, 108, 101, 95, 100, 97, 116, 97>>
      [] s = "attack_anim_types" ->
            <<97, 116, 116, 97, 99, 107, 95, 97, 110, 105, 109, 95, 116,
            121, 112, 101, 115>>
      [] s = "sound_entries" ->
            <<115, 111, 117, 110, 100, 95, 101, 110, 116, 114, 105, 101,
            115>>
      [] s = "lock_type" ->
            <<108, 111, 99, 107, 95, 116, 121, 112, 101>>
      [] s = "spell_range" ->
            <<115, 112, 101, 108, 108, 95, 114, 97, 110, 103, 101>>
      [] s = "gt_chance_to_spell_crit_base" ->
            <<103, 116, 95, 99, 104, 97, 110, 99, 101, 95, 116, 111, 95,
            115, 112, 101, 108, 108, 95, 99, 114, 105, 116, 95, 98, 97,
            115, 101>>
      [] s = "cfg_categories" ->
            <<99, 102, 103, 95, 99, 97, 116, 101, 103, 111, 114, 105,
            101, 115>>
      [] s = "world_map_area" ->
            <<119, 111, 114, 108, 100, 95, 109, 97, 112, 95, 97, 114,
            101, 97>>
      [] s = "area_table" ->
            <<97, 114, 101, 97, 95, 116, 97, 98, 108, 101>>
      [] s = "world_map_continent" ->
            <<119, 111, 114, 108, 100, 95, 109, 97, 112, 95, 99, 111,
            110, 116, 105, 110, 101, 110, 116>>

Upper(c) == c \in 65..90
Lower(c) == c \in 97..122
Digit(c) == c \in 48..57

to_lowercase(c) == IF Upper(c) THEN c + 32 ELSE c

\* a word starts at name[i]: an uppercase letter after a lowercase letter
\* or a digit, or an uppercase letter after an uppercase one and before a
\* lowercase one
WordStart(name, i) ==
    /\ i > 1
    /\ Upper(name[i])
    /\ \/ Lower(name[i - 1])
       \/ Digit(name[i - 1])
       \/ Upper(name[i - 1]) /\ i < Len(name) /\ Lower(name[i + 1])

RECURSIVE SnakeFrom(_, _, _)
SnakeFrom(name, i, acc) ==
    IF Strict(acc) /\ i > Len(name) THEN acc
    ELSE SnakeFrom(name, i + 1,
                   acc \o (IF WordStart(name, i) THEN <<95>> ELSE <<>>)
                       \o <<to_lowercase(name[i])>>)

\* the snake-case rule of the generator's naming conventions, on the bytes
\* of a name: `_` before a word start, then lowercase; underscores stay
SnakeCase(name) == SnakeFrom(name, 1, <<>>)

Alphanumeric(c) == Upper(c) \/ Lower(c) \/ Digit(c)

\* heck's scan of a name.  st is the text so far, the mode of the word in
\* work ("Boundary", "Lowercase", "Uppercase") and whether the next
\* character opens a word.
HeckState(text, mode, opens) == [text |-> text, mode |-> mode, opens |-> opens]

\* the mode including the current character c
HeckNextMode(c, mode) ==
    IF Lower(c) THEN "Lowercase" ELSE IF Upper(c) THEN "Uppercase" ELSE mode

\* one character of the scan: a character that is not alphanumeric ends
\* the word; a word boundary falls after c when c is not uppercase and the
\* next is, and before c when c and the one before are uppercase and the
\* next is lowercase; words are joined with `_` and lowercased
HeckStep(name, i, st) ==
    LET c == name[i]
        peek == i < Len(name) /\ Alphanumeric(name[i + 1])
        next_mode == HeckNextMode(c, st.mode)
        after == peek /\ next_mode = "Lowercase" /\ Upper(name[i + 1])
        before == /\ peek /\ ~after
                  /\ st.mode = "Uppercase" /\ Upper(c) /\ Lower(name[i + 1])
        text == st.text
                  \o (IF (st.opens \/ before) /\ st.text # <<>> THEN <<95>>
                      ELSE <<>>)
                  \o <<to_lowercase(c)>>
    IN  IF ~Alphanumeric(c) THEN HeckState(st.text, "Boundary", TRUE)
        ELSE IF ~peek \/ after THEN HeckState(text, "Boundary", TRUE)
        ELSE IF before THEN HeckState(text, "Boundary", FALSE)
        ELSE HeckState(text, next_mode, FALSE)

RECURSIVE HeckFrom(_, _, _)
HeckFrom(name, i, st) ==
    IF Strict(st) /\ i > Len(name) THEN st.text
    ELSE HeckFrom(name, i + 1, HeckStep(name, i, st))

\* heck::ToSnakeCase::to_snake_case, on the bytes of a name
to_snake_case(name) == HeckFrom(name, 1, HeckState(<<>>, "Boundary", TRUE))

\* let expansions = [DbcVersion::Vanilla, DbcVersion::Tbc, DbcVersion::Wrath]
expansions == <<"vanilla", "tbc", "wrath">>

\* DbcVersion::to_str_capitalized
to_str_capitalized(version) ==
    CASE version = "vanilla" -> "Vanilla"
      [] version = "tbc" -> "Tbc"
      [] version = "wrath" -> "Wrath"

\* a DbcDescription: the name of the table and the tables its foreign key
\* fields name
DbcDescription(name, targets) == [name |-> name, targets |-> targets]

\* format!("{}Table", ..) and format!("{}TableName", ..)
enum_name(version) == to_str_capitalized(version) \o "Table"
enum_identifier(version) == to_str_capitalized(version) \o "TableName"

\* pub enum {enum_name}Name { {name}, .. }
NameEnum(o, version) ==
    [name |-> enum_name(version) \o "Name",
     variants |-> [i \in 1..Len(o) |-> o[i].name]]

\* variant: the module of a variant is its name in lowercase
TableEnum_Lowercase(o, version) ==
    [name |-> enum_name(version),
     variants |->
        [i \in 1..Len(o) |->
            [variant |-> o[i].name,
             module |-> [k \in 1..Len(Spelling(o[i].name)) |->
                            to_lowercase(Spelling(o[i].name)[k])],
             type |-> o[i].name]]]

\* pub enum {enum_name} { {name}({module_name}::{name}), .. }
TableEnum(o, version) ==
    [name |-> enum_name(version),
     variants |->
        [i \in 1..Len(o) |->
            [variant |-> o[i].name,
             module |-> to_snake_case(Spelling(o[i].name)),
             type |-> o[i].name]]]

\* variant: every arm loads the table of the catalog's first description
LoadArms_FirstTable(o, version) ==
    [imp |-> enum_identifier(version),
     arms |->
        [i \in 1..Len(o) |->
            [variant |-> o[i].name,
             module |-> to_snake_case(Spelling(o[1].name)),
             type |-> o[1].name,
             enum |-> enum_name(version)]]]

\* impl DbcTableEnum<{enum_name}> for {enum_identifier}: fn load, with the
\* arms Self::{name} => load_table_to_enum::<{module_name}::{name}, {enum_name}>(b)
LoadArms(o, version) ==
    [imp |-> enum_identifier(version),
     arms |->
        [i \in 1..Len(o) |->
            [variant |-> o[i].name,
             module |-> to_snake_case(Spelling(o[i].name)),
             type |-> o[i].name,
             enum |-> enum_name(version)]]]

\* variant: no arm for the last description
WriteArms_AllButLast(o, version) ==
    [imp |-> enum_name(version),
     arms |-> [i \in 1..(Len(o) - 1) |-> [variant |-> o[i].name]]]

\* impl DbcTableWriter for {enum_name}: fn write, with the arms
\* Self::{name}(t) => t.write(w)
WriteArms(o, version) ==
    [imp |-> enum_name(version),
     arms |-> [i \in 1..Len(o) |-> [variant |-> o[i].name]]]

\* variant: the patterns are the names of the modules
FromStrArms_ModuleNames(o, version) ==
    [imp |-> enum_identifier(version),
     arms |->
        [i \in 1..Len(o) |->
            [pattern |-> to_snake_case(Spelling(o[i].name)),
             enum |-> enum_identifier(version),
             variant |-> o[i].name]]]

\* impl std::str::FromStr for {enum_identifier}: fn from_str, with the arms
\* "{name}" => Ok({enum_identifier}::{name}); a pattern is a string literal,
\* which matches the strings of the same bytes
FromStrArms(o, version) ==
    [imp |-> enum_identifier(version),
     arms |->
        [i \in 1..Len(o) |->
            [pattern |-> Spelling(o[i].name),
             enum |-> enum_identifier(version),
             variant |-> o[i].name]]]

\* what create_table_enum writes into the module file of a version
create_table_enum(o, version) ==
    [version |-> version,
     name_enum |-> NameEnum(o, version),
     table_enum |-> TableEnum(o, version),
     load |-> LoadArms(o, version),
     write |-> WriteArms(o, version),
     from_str |-> FromStrArms(o, version)]

(***************************************************************************)
(* The module that create_table_enum emits, as the Rust it is: a match     *)
(* takes the first arm whose pattern matches.  M is what create_table_enum *)
(* returned.                                                               *)
(***************************************************************************)
\* the index of the first arm for the variant, 0 when no arm has it
MatchVariant(arms, variant) ==
    IF \A i \in 1..Len(arms) : arms[i].variant # variant THEN 0
    ELSE CHOOSE i \in 1..Len(arms) :
            /\ arms[i].variant = variant
            /\ \A j \in 1..(i - 1) : arms[j].variant # variant

\* the index of the first arm whose string literal is s, 0 for the `_` arm
MatchStr(arms, s) ==
    IF \A i \in 1..Len(arms) : arms[i].pattern # s THEN 0
    ELSE CHOOSE i \in 1..Len(arms) :
            /\ arms[i].pattern = s
            /\ \A j \in 1..(i - 1) : arms[j].pattern # s

\* DbcError::InvalidTableName(s.to_string())
InvalidTableName(s) == [kind |-> "InvalidTableName", name |-> s]

NoName == [enum |-> "", variant |-> ""]

NameOk(enum, variant) ==
    [status |-> "Ok", value |-> [enum |-> enum, variant |-> variant],
     err |-> InvalidTableName(<<>>)]
NameErr(s) == [status |-> "Err", value |-> NoName, err |-> InvalidTableName(s)]

\* Ok({enum_identifier}::{name}) of arm i, or the `_` arm
FromStrArm(arms, i, s) ==
    IF i = 0 THEN NameErr(s) ELSE NameOk(arms[i].enum, arms[i].variant)

\* <{enum_identifier} as FromStr>::from_str
from_str(M, s) == FromStrArm(M.from_str.arms, MatchStr(M.from_str.arms, s), s)

\* the table struct that the path {module}::{type} names in the module of
\* `version`: the struct `type` of the file {module}.rs
TablesAt(version, module, type) ==
    {T \in Tables : T.version = version /\ Spelling(T.module) = module
                    /\ T.name = type}

\* a value of the Table enum: the variant and the table it carries
TableValue(enum, variant, type, rows) ==
    [enum |-> enum, variant |-> variant, type |-> type, rows |-> rows]

NoTable == TableValue("", "", "", <<>>)

\* Result<{enum_name}, DbcError> of load
Loaded(r, value) ==
    [status |-> r.status, err |-> r.err,
     value |-> IF r.status = "Ok" THEN value ELSE NoTable]

\* the path or the variant does not exist: the module does not compile
NoSuchItem == [status |-> "NoSuchItem", err |-> NoError, value |-> NoTable]

\* the variants of the Table enum that carry the type {module}::{type}
Carrying(M, module, type) ==
    {i \in 1..Len(M.table_enum.variants) :
        /\ M.table_enum.variants[i].module = module
        /\ M.table_enum.variants[i].type = type}

\* load_table_to_enum::<T, E>(b): T::read(b), the table wrapped into the
\* variant of E that carries a T
load_table_to_enum(M, Ts, arm, b, bld) ==
    IF Ts = {} \/ Carrying(M, arm.module, arm.type) = {} \/ arm.enum # M.table_enum.name
    THEN NoSuchItem
    ELSE Loaded(read(CHOOSE T \in Ts : TRUE, b, bld),
                TableValue(arm.enum,
                           M.table_enum.variants[
                               CHOOSE i \in Carrying(M, arm.module, arm.type) : TRUE
                           ].variant,
                           arm.type,
                           read(CHOOSE T \in Ts : TRUE, b, bld).rows))

LoadArm(M, arms, i, b, bld) ==
    IF i = 0 THEN NoSuchItem
    ELSE load_table_to_enum(M, TablesAt(M.version, arms[i].module, arms[i].type),
                            arms[i], b, bld)

\* <{enum_identifier} as DbcTableEnum>::load(self, b)
load(M, self, b, bld) ==
    LoadArm(M, M.load.arms, MatchVariant(M.load.arms, self), b, bld)

\* the table type that variant k of the Table enum carries
Carried(M, k) ==
    TablesAt(M.version, M.table_enum.variants[k].module,
             M.table_enum.variants[k].type)

Wrote(T, rows) == [status |-> "Ok", bytes |-> write(T, rows), table |-> T.name]

\* Self::{name}(t) => t.write(w): t has the type that the variant carries
WriteArm(M, i, k, self) ==
    IF i = 0 \/ k = 0 THEN [status |-> "NoSuchItem", bytes |-> <<>>, table |-> ""]
    ELSE IF Carried(M, k) = {}
    THEN [status |-> "NoSuchItem", bytes |-> <<>>, table |-> ""]
    ELSE Wrote(CHOOSE T \in Carried(M, k) : TRUE, self.rows)

\* <{enum_name} as DbcTableWriter>::write(self, w)
write_enum(M, self) ==
    WriteArm(M, MatchVariant(M.write.arms, self.variant),
             MatchVariant(M.table_enum.variants, self.variant), self)

(***************************************************************************)
(* The specification of the emitted module: a catalog of one version, the  *)
(* module create_table_enum emits for it, and calls of from_str, load and  *)
(* write on that module.                                                   *)
(***************************************************************************)
CodecIdle ==
    /\ tbl = "none"
    /\ build = "release"
    /\ origin = "none"
    /\ input = <<>>
    /\ table = <<>>
    /\ res = NoResult
    /\ out = <<>>
    /\ res2 = NoResult
    /\ pc = "idle"
    /\ ksrc = NoKey
    /\ kres = None

\* the tables that the foreign key fields of a table name
ForeignKeys(name) ==
    IF name = "WorldMapArea" THEN {"WorldMapContinent", "AreaTable"} ELSE {}

DescriptionsOf(version) ==
    {DbcDescription(T.name, ForeignKeys(T.name)) : T \in {U \in Tables : U.version = version}}

\* the sequences over S without repetition
Arrangements(S) ==
    {q \in SeqsUpTo(S, Cardinality(S)) :
        \A i, j \in 1..Len(q) : i # j => q[i] # q[j]}

\* the strings handed to from_str: the table names, their snake case, their
\* lowercase and uppercase, a name with a space after it, the empty string
RECURSIVE MapBytes(_, _, _, _)
MapBytes(name, i, delta, acc) ==
    IF Strict(acc) /\ i > Len(name) THEN acc
    ELSE MapBytes(name, i + 1, delta,
                  Append(acc, IF delta > 0 /\ Upper(name[i]) THEN name[i] + 32
                              ELSE IF delta < 0 /\ Lower(name[i]) THEN name[i] - 32
                              ELSE name[i]))

NameStrings ==
    LET N == {Spelling(T.name) : T \in Tables}
    IN  N \cup {to_snake_case(n) : n \in N}
          \cup {MapBytes(n, 1, 1, <<>>) : n \in N}
          \cup {MapBytes(n, 1, -1, <<>>) : n \in N}
          \cup {n \o <<32>> : n \in N}
          \cup {<<>>}

\* one stream per table: a header, one record and a string block; and one
\* that ends in the header
LoadStreams ==
    {Stream(T, <<CHOOSE r \in RecordsOf(T.name) : TRUE>>, <<0, 97, 0, 98, 99, 0>>, "ok") :
        T \in Tables}
    \cup {<<87, 68, 66, 67>>}

Module == create_table_enum(gen.o, gen.version)

NameOfRows(name) == {<<>>, <<CHOOSE r \in RowsOf(name) : TRUE>>}

InitEnum ==
    /\ CodecIdle
    /\ dirs = <<>>
    /\ \E i \in 1..Len(expansions) :
        \E o \in Arrangements(DescriptionsOf(expansions[i])) :
            gen = [pc |-> "module", version |-> expansions[i], o |-> o]
    /\ fs = <<>>
    /\ touched = {}
    /\ call = NoCall

\* s.parse::<{enum_identifier}>()
FromStr ==
    /\ gen.pc = "module"
    /\ call = NoCall
    /\ \E s \in NameStrings :
        call' = [op |-> "from_str", arg |-> s, input |-> <<>>,
                 result |-> from_str(Module, s)]
    /\ UNCHANGED <<codecvars, dirs, gen, fs, touched>>

\* name.load(&mut b)
Load ==
    /\ gen.pc = "module"
    /\ call = NoCall
    /\ \E i \in 1..Len(gen.o), b \in LoadStreams :
        call' = [op |-> "load", arg |-> gen.o[i].name, input |-> b,
                 result |-> load(Module, gen.o[i].name, b, "release")]
    /\ UNCHANGED <<codecvars, dirs, gen, fs, touched>>

\* table.write(&mut w)
WriteTable ==
    /\ gen.pc = "module"
    /\ call = NoCall
    /\ \E i \in 1..Len(gen.o) : \E rows \in NameOfRows(gen.o[i].name) :
        call' = [op |-> "write",
                 arg |-> TableValue(enum_name(gen.version), gen.o[i].name,
                                    gen.o[i].name, rows),
                 input |-> <<>>,
                 result |-> write_enum(Module,
                                TableValue(enum_name(gen.version), gen.o[i].name,
                                           gen.o[i].name, rows))]
    /\ UNCHANGED <<codecvars, dirs, gen, fs, touched>>

NextEnum == FromStr \/ Load \/ WriteTable

SpecEnum == InitEnum /\ [][NextEnum]_vars

(***************************************************************************)
(* rxml: main, the driver.  A schema directory is the sequence of its      *)
(* files in the order read_dir yields them; a file is the table it         *)
(* describes, whether parse_dbc_xml_file accepts it, and the tables its    *)
(* foreign keys name.  A failure of the parser or of the printer is a      *)
(* panic: the process ends where it is.                                    *)
(***************************************************************************)
MaxFiles == 3

SchemaFile(name, parses, targets) ==
    [name |-> name, parses |-> parses, targets |-> targets]

\* byte strings in lexicographic order (Ord of String)
StrLess(a, b) ==
    \E k \in 1..(Min(Len(a), Len(b)) + 1) :
        /\ \A j \in 1..(k - 1) : a[j] = b[j]
        /\ IF k > Len(a) THEN k <= Len(b)
           ELSE k <= Len(b) /\ a[k] < b[k]

\* Ord of DbcDescription: by the name of the table
DescLess(d, e) == StrLess(Spelling(d.name), Spelling(e.name))

\* variant: the descriptions stay in the order of the listing
SortDescriptions_AsListed(o) == o

\* o.descriptions.sort()
SortDescriptions(o) == SortSeq(o, DescLess)

\* Objects::table_exists
table_exists(o, table_name) == \E i \in 1..Len(o) : o[i].name = table_name

\* Writer::module_name of the writer of a table
module_name(name) == SnakeCase(Spelling(name))

\* Writer::file_name: {module_name}.rs
file_name(name) == module_name(name) \o <<46, 114, 115>>

\* DbcVersion::module_name
version_module_name(version) == version \o "_tables"

\* table_location(version) joined with a file name
table_location(version, file) ==
    [crate |-> "wow_dbc", dir |-> version_module_name(version), file |-> file]

\* converter_location(version, ty)
converter_location(version, ty) ==
    [crate |-> "wow_dbc_converter", dir |-> "",
     file |-> <<version_module_name(version), ty>>]

\* rust_printer::create_table(d, &o, version): the text of the file of one
\* table; a foreign key that names no table of the catalog ends the run
create_table(d, o, version) ==
    IF \E t \in d.targets : ~table_exists(o, t)
    THEN [status |-> "Panic", text |-> <<>>]
    ELSE [status |-> "Ok",
          text |-> [kind |-> "table", version |-> version, table |-> d.name,
                    targets |-> d.targets]]

\* the module file: the `pub mod` lines of the sorted modules, a blank
\* line, and what create_table_enum writes
module_file(modules, o, version) ==
    [kind |-> "mod", modules |-> SortSeq(modules, StrLess),
     enum |-> create_table_enum(o, version)]

\* rust_printer::sqlite_converter(o.descriptions(), version, &o)
sqlite_converter(o, version) ==
    [kind |-> "sqlite", version |-> version,
     tables |-> [i \in 1..Len(o) |-> o[i].name]]

\* file_utils::overwrite_if_not_same_contents: the file is written unless
\* it exists with these contents
SameContents(files, contents, path) ==
    path \in DOMAIN files /\ files[path] = contents

overwrite_if_not_same_contents(files, contents, path) ==
    IF SameContents(files, contents, path) THEN files
    ELSE (path :> contents) @@ [q \in DOMAIN files \ {path} |-> files[q]]

Touch(files, contents, path) ==
    IF SameContents(files, contents, path) THEN touched ELSE touched \cup {path}

\* the locals of main: the version in work (index into expansions), the
\* catalog o, the index of the next description, the modules pushed
Main(at, run, v, o, i, modules) ==
    [pc |-> at, run |-> run, v |-> v, o |-> o, i |-> i, modules |-> modules]

\* which run this is, and the listings the run before it was given
RunOf(n, listed) == [n |-> n, listed |-> listed]

Panicked(g) == Main("panicked", g.run, g.v, g.o, g.i, g.modules)

\* the files of the model: per version some schemas of its tables and one
\* file that is no valid schema
Broken == SchemaFile("broken", FALSE, {})

SchemaPool(version) ==
    CASE version = "vanilla" ->
            { SchemaFile("WorldMapArea", TRUE, ForeignKeys("WorldMapArea")),
              SchemaFile("AreaTable", TRUE, {}),
              SchemaFile("WorldMapContinent", TRUE, {}), Broken }
      [] version = "tbc" ->
            { SchemaFile("LockType", TRUE, {}), SchemaFile("SoundEntries", TRUE, {}),
              Broken }
      [] version = "wrath" ->
            { SchemaFile("gtChanceToSpellCritBase", TRUE, {}),
              SchemaFile("WMOAreaTable", TRUE, {}), Broken }

Listings(version) ==
    {q \in Arrangements(SchemaPool(version)) : Len(q) <= MaxFiles}

\* the listings that hold the files of l in some order
Reorderings(l) == {q \in Arrangements({l[i] : i \in 1..Len(l)}) : Len(q) = Len(l)}

InitGen ==
    /\ CodecIdle
    /\ dirs \in {<<a, b, c>> : a \in Listings(expansions[1]),
                               b \in Listings(expansions[2]),
                               c \in Listings(expansions[3])}
    /\ gen = Main("parse", RunOf(1, <<>>), 1, <<>>, 1, <<>>)
    /\ fs = <<>>
    /\ touched = {}
    /\ call = NoCall

\* read_dir, the parse loop and o.descriptions.sort() (main.rs 170-182)
ParseSchemas ==
    /\ gen.pc = "parse"
    /\ IF \E k \in 1..Len(dirs[gen.v]) : ~dirs[gen.v][k].parses
       THEN gen' = Panicked(gen)
       ELSE gen' = Main(IF dirs[gen.v] = <<>> THEN "mod" ELSE "tables",
                        gen.run, gen.v,
                        SortDescriptions(
                            [k \in 1..Len(dirs[gen.v]) |->
                                DbcDescription(dirs[gen.v][k].name,
                                               dirs[gen.v][k].targets)]),
                        1, <<>>)
    /\ UNCHANGED <<codecvars, dirs, fs, touched, call>>

\* one turn of `for d in o.descriptions()` (main.rs 184-192)
EmitTable ==
    /\ gen.pc = "tables"
    /\ IF create_table(gen.o[gen.i], gen.o, expansions[gen.v]).status = "Panic"
       THEN /\ gen' = Panicked(gen)
            /\ UNCHANGED <<fs, touched>>
       ELSE /\ gen' = Main(IF gen.i = Len(gen.o) THEN "mod" ELSE "tables",
                           gen.run, gen.v, gen.o, gen.i + 1,
                           Append(gen.modules, module_name(gen.o[gen.i].name)))
            /\ fs' = overwrite_if_not_same_contents(fs,
                        create_table(gen.o[gen.i], gen.o, expansions[gen.v]).text,
                        table_location(expansions[gen.v],
                                       file_name(gen.o[gen.i].name)))
            /\ touched' = Touch(fs,
                        create_table(gen.o[gen.i], gen.o, expansions[gen.v]).text,
                        table_location(expansions[gen.v],
                                       file_name(gen.o[gen.i].name)))
    /\ UNCHANGED <<codecvars, dirs, call>>

\* modules.sort(), the module file and its write (main.rs 194-207)
EmitModule ==
    /\ gen.pc = "mod"
    /\ gen' = Main("sqlite", gen.run, gen.v, gen.o, gen.i, gen.modules)
    /\ fs' = overwrite_if_not_same_contents(fs,
                module_file(gen.modules, gen.o, expansions[gen.v]),
                table_location(expansions[gen.v], <<109, 111, 100, 46, 114, 115>>))
    /\ touched' = Touch(fs,
                module_file(gen.modules, gen.o, expansions[gen.v]),
                table_location(expansions[gen.v], <<109, 111, 100, 46, 114, 115>>))
    /\ UNCHANGED <<codecvars, dirs, call>>

\* the SQLite converter file and its write, then the next version
\* (main.rs 209-212)
EmitSqlite ==
    /\ gen.pc = "sqlite"
    /\ gen' = Main(IF gen.v = Len(expansions) THEN "done" ELSE "parse",
                   gen.run, gen.v + 1, <<>>, 1, <<>>)
    /\ fs' = overwrite_if_not_same_contents(fs,
                sqlite_converter(gen.o, expansions[gen.v]),
                converter_location(expansions[gen.v], "sqlite"))
    /\ touched' = Touch(fs,
                sqlite_converter(gen.o, expansions[gen.v]),
                converter_location(expansions[gen.v], "sqlite"))
    /\ UNCHANGED <<codecvars, dirs, call>>

\* the generator is run again over the same files, which read_dir may
\* yield in another order
RunAgain ==
    /\ gen.pc = "done"
    /\ gen.run.n = 1
    /\ dirs' \in {<<a, b, c>> : a \in Reorderings(dirs[1]),
                                b \in Reorderings(dirs[2]),
                                c \in Reorderings(dirs[3])}
    /\ gen' = Main("parse", RunOf(2, dirs), 1, <<>>, 1, <<>>)
    /\ touched' = {}
    /\ UNCHANGED <<codecvars, fs, call>>

NextGen == ParseSchemas \/ EmitTable \/ EmitModule \/ EmitSqlite \/ RunAgain

SpecGen == InitGen /\ [][NextGen]_vars

(***************************************************************************)
(* Vocabulary of the properties.                                           *)
(***************************************************************************)
ThisTable == TableOf(tbl)

Written == pc \in {"written", "reread"}

\* the four u32 of the header of a stream s of at least 20 bytes
RecordCountOf(s) == u32_from_le(s, 5)
FieldCountOf(s) == u32_from_le(s, 9)
RecordSizeOf(s) == u32_from_le(s, 13)
StringBlockSizeOf(s) == u32_from_le(s, 17)

\* the 4-byte slots of one field value, in wire order: a string slot with
\* its string, or a slot that holds no string_ref
StrSlot(x) == [str |-> TRUE, s |-> x]
RawSlot == [str |-> FALSE, s |-> <<>>]

SlotsOfField(f, v) ==
    CASE f.ty = "string" -> << StrSlot(v) >>
      [] f.ty = "string_array" -> [i \in 1..f.n |-> StrSlot(v[i])]
      [] f.ty = "i32_array" -> [i \in 1..f.n |-> RawSlot]
      [] f.ty \in {"localized", "extended_localized"} ->
            [i \in 1..LocaleCount(f.ty) |-> StrSlot(v.strings[i])] \o << RawSlot >>
      [] OTHER -> << RawSlot >>

\* the slots of a row whose fields are taken in the order of `fields`
RECURSIVE SlotsOfRow(_, _, _, _)
SlotsOfRow(fields, i, row, slots) ==
    IF Strict(slots) /\ i > Len(fields) THEN slots
    ELSE SlotsOfRow(fields, i + 1, row,
                    slots \o SlotsOfField(fields[i], row[fields[i].name]))

\* the slots of row i with their place: the row and the slot number
Placed(i, slots) ==
    [j \in 1..Len(slots) |->
        [row |-> i, slot |-> j, str |-> slots[j].str, s |-> slots[j].s]]

HoldsString(p) == p.str /\ p.s # <<>>

\* the placed slots of all rows that hold a non-empty string, row by row in
\* the order of the field sequence `fields`
RECURSIVE StringSlots(_, _, _, _)
StringSlots(fields, rows, i, acc) ==
    IF Strict(acc) /\ i > Len(rows) THEN acc
    ELSE StringSlots(fields, rows, i + 1,
            acc \o SelectSeq(Placed(i, SlotsOfRow(fields, 1, rows[i], <<>>)),
                             HoldsString))

\* 1 plus the sum of len + 1 over the first k of the slots ss
OffsetAfter(ss, k) ==
    1 + k + Cardinality(UNION {{j} \X (1..Len(ss[j].s)) : j \in 1..k})

\* the u32 that `out` holds in slot j of the record of row i
EmittedAt(i, j) ==
    u32_from_le(out, HEADER_SIZE + (i - 1) * ThisTable.ROW_SIZE + 4 * (j - 1) + 1)

\* the string block of `out`: what follows the header and the records
BlockStart == HEADER_SIZE + Len(table) * ThisTable.ROW_SIZE
BlockOfOut == SubSeq(out, BlockStart + 1, Len(out))

(***************************************************************************)
(* C1.  Round trip from a table value: for every table value, write        *)
(* produces bytes on which read succeeds and returns an equal table.       *)
(* (Fails on the code: see C1_NulFreeRoundTrip for what does hold.)        *)
(***************************************************************************)
C1_WriteThenReadYieldsEqualTable ==
    (pc = "reread" /\ origin = "table") =>
        (res2.status = "Ok" /\ res2.rows = table)

\* no string of the table holds a NUL byte
NulFreeSlots(slots) ==
    \A j \in 1..Len(slots) : \A k \in 1..Len(slots[j].s) : slots[j].s[k] # 0

NulFree(rows) ==
    \A i \in 1..Len(rows) :
        NulFreeSlots(SlotsOfRow(ThisTable.row, 1, rows[i], <<>>))

\* the round trip holds for the tables none of whose strings holds a NUL
C1_NulFreeRoundTrip ==
    (pc = "reread" /\ origin = "table" /\ NulFree(table)) =>
        (res2.status = "Ok" /\ res2.rows = table)

OffsetsAgree(refs, placed) ==
    /\ Len(refs) = Len(placed)
    /\ \A k \in 1..Len(refs) :
        /\ refs[k].s = placed[k].s
        /\ EmittedAt(refs[k].row, refs[k].slot)
              = AsU32(FromInt(OffsetAfter(placed, k - 1)))
        /\ SubSeq(BlockOfOut, OffsetAfter(placed, k - 1) + 1,
                  OffsetAfter(placed, k)) = placed[k].s \o <<0>>

C3_StringIndexIsBlockOffset ==
    Written =>
        OffsetsAgree(StringSlots(ThisTable.write, table, 1, <<>>),
                     StringSlots(ThisTable.write_string_block, table, 1, <<>>))

\* two SoundEntries rows written, each with a name, a first and a last file
\* and a directory_base
C3_Witness ==
    /\ Written /\ tbl = "SoundEntries" /\ Len(table) = 2
    /\ \A i \in 1..2 :
        /\ table[i].name # <<>>
        /\ table[i].file[1] # <<>>
        /\ table[i].file[10] # <<>>
        /\ table[i].directory_base # <<>>

(***************************************************************************)
(* C4.  Size of the string block: string_block_size, which write puts in   *)
(* the header, is 1 plus the sum of len + 1 over the non-empty strings of  *)
(* all rows, and is the number of bytes write_string_block emits.          *)
(***************************************************************************)
SizeIs(n) ==
    /\ string_block_size(ThisTable, table) = AsU32(FromInt(n))
    /\ StringBlockSizeOf(out) = AsU32(FromInt(n))
    /\ Len(write_string_block(ThisTable, table, <<>>)) = n
    /\ Len(out) = BlockStart + n

AllStrings == StringSlots(ThisTable.row, table, 1, <<>>)

C4_StringBlockSizeIsBytesEmitted ==
    Written => SizeIs(OffsetAfter(AllStrings, Len(AllStrings)))

\* two LockType rows written with empty and non-empty locale strings
C4_Witness ==
    /\ Written /\ tbl = "LockType" /\ Len(table) = 2
    /\ Len(AllStrings) >= 2
    /\ \E i \in 1..2 : \E k \in 1..16 : table[i].name_lang.strings[k] = <<>>

(***************************************************************************)
(* C5.  Empty strings: write emits offset 0 for an empty string, does not  *)
(* advance string_index for it and emits no byte for it in the string      *)
(* block; a non-empty string gets an offset of at least 1.                 *)
(***************************************************************************)
EmptyIsZero(i, p) ==
    \A j \in 1..Len(p) :
        p[j].str =>
            IF p[j].s = <<>> THEN EmittedAt(i, j) = W0
            ELSE WLeq(FromInt(1), EmittedAt(i, j))

\* the offsets of the non-empty strings advance by len + 1 from 1, as if
\* the empty ones between them were not there
NoAdvance(refs) ==
    /\ \A k \in 1..Len(refs) :
          EmittedAt(refs[k].row, refs[k].slot)
              = AsU32(FromInt(OffsetAfter(refs, k - 1)))
    /\ WriteRecords(ThisTable.write, table, 1, Emit(<<>>, 1)).string_index
          = OffsetAfter(refs, Len(refs))
    /\ Len(BlockOfOut) = OffsetAfter(refs, Len(refs))

C5_EmptyStringIsOffsetZero ==
    Written =>
        /\ \A i \in 1..Len(table) :
              EmptyIsZero(i, Placed(i, SlotsOfRow(ThisTable.write, 1, table[i], <<>>)))
        /\ NoAdvance(StringSlots(ThisTable.write, table, 1, <<>>))

\* a SoundEntries row written whose file array has empty strings between
\* two non-empty ones
C5_Witness ==
    /\ Written /\ tbl = "SoundEntries" /\ Len(table) >= 1
    /\ table[1].file[1] # <<>>
    /\ table[1].file[2] = <<>>
    /\ table[1].file[10] # <<>>

(***************************************************************************)
(* C6.  A wrong record_size is refused: when the magic is WDBC and the     *)
(* header's record_size differs from ROW_SIZE, read returns                *)
(* InvalidHeader::RecordSize with expected = ROW_SIZE and actual = the     *)
(* header's record_size, returns no table, and has consumed exactly the 20 *)
(* header bytes.  C6_Original is the statement without the condition on    *)
(* the magic.                                                              *)
(***************************************************************************)
ReadDone == origin = "stream" /\ pc # "start"

HasHeader == Len(input) >= HEADER_SIZE

MagicOf(s) == SubSeq(s, 1, 4)

WrongRecordSize == RecordSizeOf(input) # AsU32(FromInt(ThisTable.ROW_SIZE))

WrongFieldCount == FieldCountOf(input) # AsU32(FromInt(ThisTable.FIELD_COUNT))

RefusedForRecordSize ==
    /\ pc = "failed"
    /\ table = <<>>
    /\ res = Err(RecordSizeError(AsU32(FromInt(ThisTable.ROW_SIZE)),
                                 RecordSizeOf(input)), HEADER_SIZE)

C6_Original ==
    (ReadDone /\ HasHeader /\ WrongRecordSize) => RefusedForRecordSize

C6_RecordSizeMismatch ==
    (ReadDone /\ HasHeader /\ MagicOf(input) = MAGIC /\ WrongRecordSize)
        => RefusedForRecordSize

\* a stream with records and a string block after a header whose
\* record_size and field_count are both wrong
C6_Witness ==
    /\ ReadDone /\ MagicOf(input) = MAGIC
    /\ Len(input) > HEADER_SIZE + 1
    /\ WrongRecordSize /\ WrongFieldCount
    /\ RefusedForRecordSize

(***************************************************************************)
(* C7.  A wrong field_count is refused: when the magic is WDBC, the        *)
(* header's record_size is ROW_SIZE and its field_count differs from       *)
(* FIELD_COUNT, read returns InvalidHeader::FieldCount with expected =     *)
(* FIELD_COUNT and actual = the header's field_count and returns no table, *)
(* whatever follows the header.  C7_Original is the statement without the  *)
(* condition on the magic.                                                 *)
(***************************************************************************)
RefusedForFieldCount ==
    /\ pc = "failed"
    /\ table = <<>>
    /\ res.status = "Err"
    /\ res.rows = <<>>
    /\ res.err = FieldCountError(AsU32(FromInt(ThisTable.FIELD_COUNT)),
                                 FieldCountOf(input))

C7_Original ==
    (ReadDone /\ HasHeader /\ ~WrongRecordSize /\ WrongFieldCount)
        => RefusedForFieldCount

C7_FieldCountMismatch ==
    (ReadDone /\ HasHeader /\ MagicOf(input) = MAGIC
        /\ ~WrongRecordSize /\ WrongFieldCount) => RefusedForFieldCount

\* a stream whose header has the right record_size and a wrong field_count,
\* followed by records and a string block that would decode
C7_Witness ==
    /\ ReadDone /\ MagicOf(input) = MAGIC
    /\ ~WrongRecordSize /\ WrongFieldCount
    /\ RecordCountOf(input) # W0
    /\ Len(input) = HEADER_SIZE
          + AsUsize(RecordCountOf(input)) * ThisTable.ROW_SIZE
          + AsUsize(StringBlockSizeOf(input))
    /\ RefusedForFieldCount

(***************************************************************************)
(* C8.  The header's sizes: in the header that write emits, record_size is *)
(* the sum of the on-wire widths of the fields of the row struct, and      *)
(* field_count is the number of 4-byte slots of a record (record_size / 4: *)
(* every array element, locale string and flags word counts); it is the    *)
(* number of fields of the row struct when no field is an array or a       *)
(* localized string.  C8_Original has field_count equal to the number of   *)
(* fields of the row struct for every table.                               *)
(***************************************************************************)
\* bytes of one field on the wire
WireWidth(f) ==
    CASE f.ty \in {"string_array", "i32_array"} -> 4 * f.n
      [] f.ty \in {"localized", "extended_localized"} -> 4 * (LocaleCount(f.ty) + 1)
      [] OTHER -> 4

RECURSIVE SumOfWidths(_, _, _)
SumOfWidths(fields, i, sum) ==
    IF Strict(sum) /\ i > Len(fields) THEN sum
    ELSE SumOfWidths(fields, i + 1, sum + WireWidth(fields[i]))

OneSlotEach(fields) == \A i \in 1..Len(fields) : WireWidth(fields[i]) = 4

HeaderSizesAre(width) ==
    /\ RecordSizeOf(out) = FromInt(width)
    /\ ThisTable.ROW_SIZE = width
    /\ AsUsize(FieldCountOf(out)) * 4 = width
    /\ ThisTable.FIELD_COUNT * 4 = width

C8_Original ==
    Written =>
        /\ RecordSizeOf(out) = FromInt(SumOfWidths(ThisTable.row, 1, 0))
        /\ FieldCountOf(out) = FromInt(Len(ThisTable.row))

C8_HeaderSizes ==
    Written =>
        /\ HeaderSizesAre(SumOfWidths(ThisTable.row, 1, 0))
        /\ OneSlotEach(ThisTable.row)
              => FieldCountOf(out) = FromInt(Len(ThisTable.row))

\* SoundEntries written: 11 fields in the row struct, 29 in the header
C8_Witness ==
    /\ Written /\ tbl = "SoundEntries" /\ Len(table) >= 1
    /\ Len(ThisTable.row) < AsUsize(FieldCountOf(out))
    /\ RecordSizeOf(out) = FromInt(SumOfWidths(ThisTable.row, 1, 0))

(***************************************************************************)
(* C9.  Lookup by key: get and get_mut both return the row of lowest index *)
(* whose id equals the input, or nothing when no row has it; an input that *)
(* does not fit the type of the id gives nothing, never an error and never *)
(* the row whose id is the input wrapped to 32 bits.                       *)
(***************************************************************************)
KeyOfTable == ThisTable.PrimaryKey

Fitting == InType(KeyOfTable.id, ksrc.v)

HasRow == \E i \in 1..Len(table) : table[i].id.id = ksrc.v

FirstMatch ==
    /\ kres.status = "Some"
    /\ kres.index \in 1..Len(table)
    /\ table[kres.index].id.id = ksrc.v
    /\ kres.id = ksrc.v
    /\ \A j \in 1..(kres.index - 1) : table[j].id.id # ksrc.v

C9_GetReturnsFirstMatch ==
    pc \in {"got", "got_mut"} =>
        IF Fitting /\ HasRow THEN FirstMatch ELSE kres = None

\* get_mut on a table whose two rows have the id asked for
C9_Witness ==
    /\ pc = "got_mut" /\ Len(table) = 2
    /\ table[1].id = table[2].id
    /\ table[1].id.id = ksrc.v
    /\ kres.index = 1

\* get of u32::MAX on a LockType table that has a row of id -1
C9_WrappedInputFindsNothing ==
    /\ pc = "got" /\ tbl = "LockType"
    /\ ksrc = [ty |-> "u32", v |-> MaxU32]
    /\ \E i \in 1..Len(table) : table[i].id.id = FromInt(-1)
    /\ kres = None

(***************************************************************************)
(* C10.  Conversions into a key: for every key type and every integer v of *)
(* every integer type, the conversion succeeds exactly when v is in the    *)
(* range of the type of the id (i32 for LockTypeKey, u32 for               *)
(* SpellRangeKey); then the id of the key is v; otherwise the error is v   *)
(* itself; and the conversion is a From, which cannot fail, exactly for    *)
(* the source types all of whose values fit.                               *)
(***************************************************************************)
Bits(ty) ==
    CASE ty \in {"u8", "i8"} -> 8
      [] ty \in {"u16", "i16"} -> 16
      [] ty \in {"u32", "i32"} -> 32
      [] OTHER -> 64

Signed(ty) == ty \in {"i8", "i16", "i32", "i64", "isize"}

\* every value of the type src is a value of the type dst
AlwaysFits(src, dst) ==
    CASE Signed(src) /\ Signed(dst) -> Bits(src) <= Bits(dst)
      [] ~Signed(src) /\ ~Signed(dst) -> Bits(src) <= Bits(dst)
      [] ~Signed(src) /\ Signed(dst) -> Bits(src) < Bits(dst)
      [] OTHER -> FALSE

C10_KeyConversions ==
    pc = "converted" =>
        /\ Fitting => kres = KeyOk(ksrc.v)
        /\ ~Fitting => kres = KeyErr(ksrc.v)
        /\ ksrc.ty \in KeyOfTable.From \cup KeyOfTable.TryFrom
        /\ ksrc.ty \in KeyOfTable.From <=> AlwaysFits(ksrc.ty, KeyOfTable.id)
        /\ ksrc.ty \in KeyOfTable.From => kres.status = "Ok"

\* 2^31 as a u32 is refused by LockTypeKey and handed back
C10_Witness ==
    /\ pc = "converted" /\ tbl = "LockType"
    /\ ksrc = [ty |-> "u32", v |-> W(32768, 0)]
    /\ kres.status = "Err"
    /\ kres.err = W(32768, 0)

(***************************************************************************)
(* C11.  Parsing a table name: in the module emitted for a version,        *)
(* from_str of a string gives Ok of the TableName variant T when the       *)
(* string is, byte for byte, the name of a table T of the catalog, and     *)
(* T is then a variant of the TableName enum; for every other string       *)
(* (another case, the snake case, a name of another version, a name with a *)
(* space after it, the empty string) it gives InvalidTableName carrying    *)
(* that string.                                                            *)
(***************************************************************************)
Named(s) == {i \in 1..Len(gen.o) : Spelling(gen.o[i].name) = s}

IsVariantOfNameEnum(name) ==
    /\ Module.name_enum.name = to_str_capitalized(gen.version) \o "TableName"
    /\ \E i \in 1..Len(Module.name_enum.variants) :
          Module.name_enum.variants[i] = name

ParsedAs(i) ==
    /\ call.result =
          NameOk(to_str_capitalized(gen.version) \o "TableName", gen.o[i].name)
    /\ IsVariantOfNameEnum(gen.o[i].name)

C11_FromStrParsesExactNames ==
    call.op = "from_str" =>
        IF Named(call.arg) # {}
        THEN \A i \in Named(call.arg) : ParsedAs(i)
        ELSE call.result = NameErr(call.arg)

\* from_str("lock_type") on the module of a tbc catalog that has LockType
C11_Witness ==
    /\ call.op = "from_str" /\ gen.version = "tbc"
    /\ \E i \in 1..Len(gen.o) : gen.o[i].name = "LockType"
    /\ call.arg = Spelling("lock_type")
    /\ call.result.status = "Err"
    /\ call.result.err = InvalidTableName(Spelling("lock_type"))

(***************************************************************************)
(* C12.  Dispatch: in the module emitted for a version, load on the        *)
(* TableName variant T returns what the read of table T returns on the     *)
(* same bytes, an Ok wrapped in the Table variant T; write on the Table    *)
(* variant T emits the bytes that the write of table T emits for the table *)
(* carried.                                                                *)
(***************************************************************************)
LoadedBy(T, name) ==
    call.result =
        Loaded(read(T, call.input, "release"),
               TableValue(to_str_capitalized(gen.version) \o "Table", name, name,
                          read(T, call.input, "release").rows))

WrittenBy(T) ==
    /\ call.result.status = "Ok"
    /\ call.result.table = T.name
    /\ call.result.bytes = write(T, call.arg.rows)

C12_DispatchToOwnCodec ==
    /\ call.op = "load" => LoadedBy(TableOf(call.arg), call.arg)
    /\ call.op = "write" => WrittenBy(TableOf(call.arg.variant))

\* load of the second variant of a catalog on a stream of its table
C12_Witness ==
    /\ call.op = "load" /\ Len(gen.o) >= 2
    /\ call.arg = gen.o[2].name
    /\ call.result.status = "Ok"
    /\ call.result.value.variant = call.arg
    /\ Len(call.result.value.rows) = 1

(***************************************************************************)
(* The driver.                                                             *)
(***************************************************************************)
Emitting == gen.pc \in {"tables", "mod", "sqlite"}

SortedByName(o) ==
    \A i \in 1..Len(o), j \in 1..Len(o) :
        i < j => StrLess(Spelling(o[i].name), Spelling(o[j].name))

TablesListed(l) == {l[k].name : k \in 1..Len(l)}

\* C13: if parsing or resolving a schema of any version fails, the run has
\* written no table file, no mod.rs and no SQLite converter file of any
\* version.
C13_NoOutputOnFailure == gen.pc = "panicked" => touched = {}

\* what holds of a failed run: nothing of the failing version's mod.rs or
\* converter, and nothing of a later version, has been written
C13_FailureStopsTheRun ==
    gen.pc = "panicked" =>
        \A path \in touched :
            \/ \E k \in 1..(gen.v - 1) :
                   path.dir = version_module_name(expansions[k])
                   \/ path.file = <<version_module_name(expansions[k]), "sqlite">>
            \/ /\ path.dir = version_module_name(expansions[gen.v])
               /\ \E k \in 1..(gen.i - 1) : path.file = file_name(gen.o[k].name)

\* C14: the descriptions are sorted by table name before anything is
\* emitted, and a run over the same schema files, in whatever order the
\* listing yields them, writes no file: every file already has the contents
\* the run produces.
C14_OutputIndependentOfOrder ==
    /\ Emitting => /\ SortedByName(gen.o)
                   /\ {gen.o[k].name : k \in 1..Len(gen.o)} = TablesListed(dirs[gen.v])
    /\ gen.run.n = 2 => touched = {}

C14_Witness ==
    /\ gen.run.n = 2
    /\ gen.pc = "done"
    /\ gen.run.listed[1] =
           <<SchemaFile("WorldMapContinent", TRUE, {}),
             SchemaFile("WorldMapArea", TRUE, ForeignKeys("WorldMapArea")),
             SchemaFile("AreaTable", TRUE, {})>>
    /\ dirs[1] =
           <<SchemaFile("WorldMapArea", TRUE, ForeignKeys("WorldMapArea")),
             SchemaFile("AreaTable", TRUE, {}),
             SchemaFile("WorldMapContinent", TRUE, {})>>
    /\ dirs[2] # gen.run.listed[2]
    /\ Cardinality(DOMAIN fs) = 12
    /\ touched = {}

(***************************************************************************)
(* Streams that end early.                                                 *)
(***************************************************************************)
\* the header read accepts: the magic, the record size and the field count
\* of the table, and a record region whose size fits in 32 bits
HeaderAccepted ==
    /\ HasHeader
    /\ MagicOf(input) = MAGIC
    /\ ~WrongRecordSize
    /\ ~WrongFieldCount
    /\ InU32(WMul(RecordCountOf(input), AsUsize(RecordSizeOf(input))))

RecordRegionEnd ==
    HEADER_SIZE + AsUsize(RecordCountOf(input)) * AsUsize(RecordSizeOf(input))

\* the number of bytes the header declares the file to have
DeclaredLen == RecordRegionEnd + AsUsize(StringBlockSizeOf(input))

RefusedForIo ==
    /\ pc = "failed"
    /\ table = <<>>
    /\ res.status = "Err"
    /\ res.err = IoError

\* C15: a stream that ends before the header, the record region or the
\* string block its header declares is complete makes read return an Io
\* error and no table.
C15_TruncatedStreamIsIoError ==
    (ReadDone /\ (~HasHeader \/ (HeaderAccepted /\ Len(input) < DeclaredLen)))
        => RefusedForIo

\* what holds: the same for the header and the record region of every
\* table, and for the string block of the tables whose read reads it
C15_TruncationWhereRead ==
    (ReadDone /\ (~HasHeader \/
                  (HeaderAccepted /\
                   Len(input) < (IF ThisTable.read_string_block
                                 THEN DeclaredLen ELSE RecordRegionEnd))))
        => RefusedForIo

(***************************************************************************)
(* String refs of a stream.                                                *)
(***************************************************************************)
\* the stream holds all the bytes its header declares, and read reads them
Complete ==
    /\ HeaderAccepted
    /\ ThisTable.read_string_block
    /\ Len(input) >= DeclaredLen

\* the u32 that `input` holds in slot j of record i
InputAt(i, j) ==
    u32_from_le(input, HEADER_SIZE + (i - 1) * ThisTable.ROW_SIZE + 4 * (j - 1) + 1)

InputBlock == SubSeq(input, RecordRegionEnd + 1, DeclaredLen)

\* which slots of a record are string refs
SlotKinds == SlotsOfRow(ThisTable.read, 1, BaseRow(tbl), <<>>)

RefsAmong(n, kinds) ==
    IF Strict(kinds)
    THEN {r \in (1..n) \X (1..Len(kinds)) : kinds[r[2]].str} ELSE {}

StringRefs == RefsAmong(AsUsize(RecordCountOf(input)), SlotKinds)

NulsAfter(block, off) == {k \in (off + 1)..Len(block) : block[k] = 0}

\* the bytes of the block from offset off up to the next NUL
StringAt(block, off) ==
    SubSeq(block, off + 1,
           (CHOOSE k \in NulsAfter(block, off) :
                \A m \in NulsAfter(block, off) : k <= m) - 1)

\* the offset lies in the block, a NUL follows, and the bytes up to it are
\* UTF-8
Resolves(block, off) ==
    /\ off < Len(block)
    /\ NulsAfter(block, off) # {}
    /\ from_utf8_ok(StringAt(block, off))

\* the offsets of the string refs refs: the u32 of each in the input
OffsetsOf(refs) == [r \in refs |-> AsUsize(InputAt(r[1], r[2]))]

AllResolve(refs, offs, block) ==
    Strict(offs) /\ Strict(block) /\ \A r \in refs : Resolves(block, offs[r])

AllRefsResolve == AllResolve(StringRefs, OffsetsOf(StringRefs), InputBlock)

\* the slots of the rows read, row by row
SlotsRead == [i \in 1..Len(table) |-> SlotsOfRow(ThisTable.read, 1, table[i], <<>>)]

\* read succeeded, or stopped at an enum field
DecodedOrBadEnum ==
    \/ res.status = "Ok" /\ Len(table) = AsUsize(RecordCountOf(input))
    \/ res.status = "Err" /\ res.err.kind = "InvalidEnumValue"

EachRefByItsOffset(refs, offs, slots, block) ==
    Strict(offs) /\ Strict(slots) /\
    \A r \in refs : slots[r[1]][r[2]].s = StringAt(block, offs[r])

SharedOffsetSameString(refs, offs, slots) ==
    Strict(offs) /\ Strict(slots) /\
    \A r \in refs, q \in refs :
        offs[r] = offs[q] => slots[r[1]][r[2]].s = slots[q[1]][q[2]].s

ZeroIsEmpty(refs, offs, slots) ==
    Strict(offs) /\ Strict(slots) /\
    \A r \in refs : offs[r] = 0 => slots[r[1]][r[2]].s = <<>>

IsLocalized(f) == f.ty \in {"localized", "extended_localized"}

\* the fields of a record that are localized strings, each with the number
\* of the slot before its first locale
LocalizedFields(fields) ==
    { [name |-> fields[k].name, locales |-> LocaleCount(fields[k].ty),
       base |-> SumOfWidths(SubSeq(fields, 1, k - 1), 1, 0) \div 4] :
        k \in {m \in 1..Len(fields) : IsLocalized(fields[m])} }

AllEmpty(v) == \A k \in 1..Len(v.strings) : v.strings[k] = <<>>

\* the offsets that `out` holds in the locale slots of the localized string
\* lf of row i
LocaleOffsets(i, lf) == [k \in 1..lf.locales |-> AsUsize(EmittedAt(i, lf.base + k))]

\* the strings of the locales `set` lie in the block one after the other
Rising(v, offs, set) ==
    \A k \in set, m \in set : k < m => offs[k] + Len(v.strings[k]) + 1 <= offs[m]

\* the locale slots and the flags slot that `out` holds for the localized
\* string v of row i, offs being its locale offsets
LocalizedAsWritten(i, lf, v, offs, block) ==
    /\ Strict(offs)
    /\ Len(v.strings) = lf.locales
    \* the flags word follows the locales and is the flags of the value
    /\ EmittedAt(i, lf.base + lf.locales + 1) = v.flags
    \* an empty locale is offset 0; the others are offsets into the block,
    \* rising in the order of the locales, each at its string and NUL
    /\ \A k \in 1..lf.locales :
          IF v.strings[k] = <<>> THEN offs[k] = 0
          ELSE /\ offs[k] # 0
               /\ SubSeq(block, offs[k] + 1, offs[k] + Len(v.strings[k]) + 1)
                      = v.strings[k] \o <<0>>
    /\ Rising(v, offs, {k \in 1..lf.locales : offs[k] # 0})
    \* without a locale the value adds nothing to the block or its size
    /\ AllEmpty(v) => /\ localized_string_block_size(v) = 0
                      /\ string_block_as_array(v, <<0>>) = <<0>>

LocalizedWritten(lfs, rows, block) ==
    Strict(lfs) /\ Strict(block) /\
    \A i \in 1..Len(rows) : \A lf \in lfs :
        LocalizedAsWritten(i, lf, rows[i][lf.name], LocaleOffsets(i, lf), block)

\* a table none of whose strings has a byte has the block of one NUL
NoStringIn(slots) == \A p \in 1..Len(slots) : slots[p].s = <<>>

NoStrings(rows) ==
    \A i \in 1..Len(rows) : NoStringIn(SlotsOfRow(ThisTable.row, 1, rows[i], <<>>))

FlagsReadBack(lfs, rows) ==
    (pc = "reread" /\ res2.status = "Ok") =>
        /\ Len(res2.rows) = Len(rows)
        /\ \A i \in 1..Len(rows) : \A lf \in lfs :
              res2.rows[i][lf.name].flags = rows[i][lf.name].flags

\* C17: write emits, for a localized string, one string ref per locale in
\* declared order and then the flags word unchanged; the flags read back
\* are the flags written, an empty locale is offset 0, and a localized
\* string without any locale adds 0 to string_block_size and no byte to
\* the string block.
C17_LocalizedStringEncoding ==
    Written =>
        /\ LocalizedWritten(LocalizedFields(ThisTable.read), table, BlockOfOut)
        /\ FlagsReadBack(LocalizedFields(ThisTable.read), table)
        /\ NoStrings(table) => /\ StringBlockSizeOf(out) = FromInt(1)
                               /\ BlockOfOut = <<0>>

\* a LockType row read back: name_lang with two locales and flags 255,
\* resource_name_lang without a locale and flags 1
C17_Witness ==
    /\ pc = "reread" /\ res2.status = "Ok" /\ tbl = "LockType" /\ Len(table) = 2
    /\ table[1].name_lang = Loc(16, (1 :> <<97>>) @@ (16 :> <<98, 99>>), FromInt(255))
    /\ table[1].resource_name_lang = Loc(16, <<>>, FromInt(1))
    /\ res2.rows[1].name_lang.flags = FromInt(255)
    /\ res2.rows[1].resource_name_lang.flags = FromInt(1)
    /\ EmittedAt(1, 2) = FromInt(1) /\ EmittedAt(1, 3) = W0
    /\ EmittedAt(1, 17) = FromInt(3) /\ EmittedAt(1, 18) = FromInt(255)
    /\ EmittedAt(1, 35) = FromInt(1)

(***************************************************************************)
(* Enum fields.                                                            *)
(***************************************************************************)
\* the fields of a record that are enums, each with its enum and its slot
EnumFields(fields) ==
    { [name |-> fields[k].name, enum |-> EnumOf(fields[k].ty),
       slot |-> SumOfWidths(SubSeq(fields, 1, k - 1), 1, 0) \div 4 + 1] :
        k \in {m \in 1..Len(fields) : fields[m].ty \in EnumNames} }

\* the i32 that `input` holds in slot j of record i
InputI32At(i, j) ==
    i32_from_le(input, HEADER_SIZE + (i - 1) * ThisTable.ROW_SIZE + 4 * (j - 1) + 1)

\* the enum slots of the first n records that hold no value of their enum
BadEnums(efs, n) ==
    {b \in (1..n) \X efs : VariantsOf(b[2].enum, InputI32At(b[1], b[2].slot)) = {}}

\* the one read meets first: records in order, fields in order
FirstBad(bad) ==
    CHOOSE b \in bad :
        \A c \in bad : b[1] < c[1] \/ (b[1] = c[1] /\ b[2].slot <= c[2].slot)

RefusedForEnum(b) ==
    /\ pc = "failed"
    /\ table = <<>>
    /\ res.status = "Err"
    /\ res.rows = <<>>
    /\ res.err = InvalidEnumValue(b[2].enum.name, InputI32At(b[1], b[2].slot))

EnumsAsWritten(efs, rows) ==
    Strict(efs) /\
    \A i \in 1..Len(rows) : \A ef \in efs :
        /\ EmittedAt(i, ef.slot) = AsU32(FromInt(as_int(ef.enum, rows[i][ef.name])))
        /\ pc = "reread" => /\ res2.status = "Ok"
                            /\ Len(res2.rows) = Len(rows)
                            /\ res2.rows[i][ef.name] = rows[i][ef.name]

\* C18: an enum field that holds an integer outside its enum makes read
\* return an error and no table, whatever rows were decoded before it; for
\* a value of the enum, write emits as_int as 4 little-endian bytes and the
\* value read back is the value written.
C18_EnumFieldValues ==
    /\ (ReadDone /\ Complete /\ AllRefsResolve
          /\ BadEnums(EnumFields(ThisTable.read), AsUsize(RecordCountOf(input))) # {})
          => RefusedForEnum(FirstBad(BadEnums(EnumFields(ThisTable.read),
                                              AsUsize(RecordCountOf(input)))))
    /\ Written => EnumsAsWritten(EnumFields(ThisTable.read), table)

\* two records of Cfg_Categories: the first decodes, the second has
\* category 257
C18_Witness ==
    /\ ReadDone /\ Complete /\ AllRefsResolve /\ tbl = "Cfg_Categories"
    /\ RecordCountOf(input) = FromInt(2)
    /\ InputI32At(1, 1) = FromInt(5) /\ InputI32At(1, 2) = FromInt(101)
    /\ InputI32At(2, 1) = FromInt(257)
    /\ pc = "failed" /\ table = <<>>
    /\ res.err = InvalidEnumValue("ServerCategory", FromInt(257))

\* a record of Cfg_Categories with category 5 and region 101, read, written
\* and read again
C18_RoundTrip ==
    /\ pc = "reread" /\ origin = "stream" /\ tbl = "Cfg_Categories"
    /\ Len(table) = 1 /\ table[1].category = "Five" /\ table[1].region = "QaServer"
    /\ SubSeq(out, HEADER_SIZE + 1, HEADER_SIZE + 8) = <<5, 0, 0, 0, 101, 0, 0, 0>>
    /\ res2.rows = table

(***************************************************************************)
(* Key values in streams.                                                  *)
(***************************************************************************)
\* the primary and foreign key fields of a record, each with its slot
KeyFields(fields) ==
    { [name |-> fields[k].name, ty |-> fields[k].ty,
       slot |-> SumOfWidths(SubSeq(fields, 1, k - 1), 1, 0) \div 4 + 1] :
        k \in {m \in 1..Len(fields) : fields[m].ty \in {"key_i32", "key_u32"}} }

\* the value of the key slot j of record i of the input
KeyWordAt(kf, i) ==
    IF kf.ty = "key_i32" THEN InputI32At(i, kf.slot) ELSE InputAt(i, kf.slot)

\* everything of the stream but its key slots is accepted by read
AcceptedButForKeys ==
    /\ ReadDone /\ Complete /\ AllRefsResolve
    /\ BadEnums(EnumFields(ThisTable.read), AsUsize(RecordCountOf(input))) = {}

KeysKept(kfs, n) ==
    Strict(kfs) /\
    /\ Len(table) = n
    /\ \A i \in 1..n : \A kf \in kfs :
          /\ table[i][kf.name] = Key(KeyWordAt(kf, i))
          /\ Written => EmittedAt(i, kf.slot) = InputAt(i, kf.slot)

\* C19: read rejects no stream for its key values: every record becomes a
\* row, in order, whose primary and foreign keys are the 32-bit values of
\* their slots, equal ids and keys of no row included.
C19_KeyValuesNeverRejected ==
    AcceptedButForKeys =>
        /\ res.status = "Ok"
        /\ res.rows = table
        /\ KeysKept(KeyFields(ThisTable.write), AsUsize(RecordCountOf(input)))

\* two records of WorldMapArea with the id 1, continents 0 and u32::MAX,
\* area 999999
C19_Witness ==
    /\ AcceptedButForKeys /\ tbl = "WorldMapArea" /\ pc = "loaded"
    /\ Len(table) = 2
    /\ table[1].id = Key(FromInt(1)) /\ table[2].id = Key(FromInt(1))
    /\ table[1].world_map_continent = Key(W0)
    /\ table[2].world_map_continent = Key(MaxU32)
    /\ table[1].area_table = Key(FromInt(999999))

(***************************************************************************)
(* Tables without string fields.                                           *)
(***************************************************************************)
\* a whole file of the table, neither cut nor followed by anything, whose
\* string block is the one byte 00
WellFormedWithoutStrings ==
    /\ HeaderAccepted
    /\ StringBlockSizeOf(input) = FromInt(1)
    /\ Len(input) = DeclaredLen
    /\ input[Len(input)] = 0

\* C20: for gtChanceToSpellCritBase, a table without string fields, and
\* every well-formed stream F whose string_block_size is 1 and whose block
\* is the byte 00, write(read(F)) is F byte for byte.
C20_StringlessStreamRoundTrip ==
    (origin = "stream" /\ Written /\ ~ThisTable.read_string_block
        /\ WellFormedWithoutStrings) => out = input

\* the stream of the rows 1.0 and 2.0, read and written
C20_Witness ==
    /\ origin = "stream" /\ pc = "written" /\ tbl = "gtChanceToSpellCritBase"
    /\ WellFormedWithoutStrings
    /\ table = << [data |-> OneF32], [data |-> TwoF32] >>
    /\ Len(out) = HEADER_SIZE + 9
    /\ out = input

(***************************************************************************)
(* The bytes read consumes.                                                *)
(***************************************************************************)
\* C21: a read that succeeds has consumed exactly 20 + record_count *
\* record_size + string_block_size bytes of the input, for tables without
\* string fields too.
C21_ConsumesDeclaredBytes ==
    (ReadDone /\ HeaderAccepted /\ res.status = "Ok") => res.consumed = DeclaredLen

\* what holds: the tables whose read reads the string block consume the
\* declared bytes, the others stop at the end of the record region
C21_ConsumesWhatIsRead ==
    (ReadDone /\ HeaderAccepted /\ res.status = "Ok") =>
        res.consumed = (IF ThisTable.read_string_block THEN DeclaredLen
                        ELSE RecordRegionEnd)

(***************************************************************************)
(* A record region that does not fit in 32 bits.                           *)
(***************************************************************************)
\* the header passes the checks of read and record_count * record_size
\* is 2^32 or more
Overflowing ==
    /\ HasHeader
    /\ MagicOf(input) = MAGIC
    /\ ~WrongRecordSize
    /\ ~WrongFieldCount
    /\ ~InU32(WMul(RecordCountOf(input), AsUsize(RecordSizeOf(input))))

\* the product as the u32 multiplication of a release build leaves it
WrappedRegionSize ==
    AsUsize(AsU32(WMul(RecordCountOf(input), AsUsize(RecordSizeOf(input)))))

\* C22: when the header passes the record_size and field_count checks but
\* record_count * record_size does not fit in 32 bits, read returns an
\* error before it allocates the record buffer: nothing after the header
\* is read, and no region of the wrapped size.
C22_OverflowIsRejected ==
    (ReadDone /\ Overflowing) =>
        /\ res.status = "Err"
        /\ res.consumed = HEADER_SIZE
        /\ table = <<>>

\* what holds: a debug build panics at the multiplication, a release
\* build goes on with the wrapped product and never reports the header
C22_OverflowPanicsOrWraps ==
    (ReadDone /\ Overflowing) =>
        IF build = "debug" THEN res = Panic(HEADER_SIZE)
        ELSE /\ res.err.kind # "InvalidHeader"
             /\ res.status = "Ok" =>
                   /\ Len(res.rows) * ThisTable.ROW_SIZE = WrappedRegionSize
                   /\ res.consumed >= HEADER_SIZE + WrappedRegionSize

(***************************************************************************)
(* The order of the checks of read.                                        *)
(***************************************************************************)
\* the error read reports when the header is refused, by the first of the
\* checks that fails; NoError when the header is accepted
FirstHeaderFailure ==
    IF ~HasHeader THEN IoError
    ELSE IF MagicOf(input) # MAGIC THEN MagicError
    ELSE IF WrongRecordSize
    THEN RecordSizeError(AsU32(FromInt(ThisTable.ROW_SIZE)), RecordSizeOf(input))
    ELSE IF WrongFieldCount
    THEN FieldCountError(AsU32(FromInt(ThisTable.FIELD_COUNT)),
                         FieldCountOf(input))
    ELSE NoError

\* the stream ends before the record region its header declares
BodyTruncated ==
    /\ HasHeader
    /\ Len(input) - HEADER_SIZE <
          AsUsize(RecordCountOf(input)) * AsUsize(RecordSizeOf(input))

\* C23: read checks in a fixed order and reports the first failure only:
\* a short header is Io with nothing decoded, then the magic, then
\* record_size, then field_count, each reported with the 20 header bytes
\* consumed and whatever the body is; the record region and the string
\* block are read only when the four checks pass, so any other outcome
\* belongs to a header that passed them.
C23_ChecksInFixedOrder ==
    ReadDone =>
        IF FirstHeaderFailure # NoError
        THEN /\ pc = "failed"
             /\ table = <<>>
             /\ res = Err(FirstHeaderFailure,
                          IF HasHeader THEN HEADER_SIZE ELSE 0)
        ELSE /\ res.err.kind # "InvalidHeader"
             /\ res.consumed >= HEADER_SIZE

\* a header with the magic, a wrong record_size and a wrong field_count in
\* front of a body shorter than it declares: RecordSize is reported
C23_Witness ==
    /\ ReadDone /\ HasHeader /\ MagicOf(input) = MAGIC
    /\ WrongRecordSize /\ WrongFieldCount
    /\ BodyTruncated
    /\ Len(input) > HEADER_SIZE
    /\ res.err.variant = "RecordSize"
    /\ res.consumed = HEADER_SIZE

(***************************************************************************)
(* write never reuses an offset.                                           *)
(***************************************************************************)
\* the offsets `out` holds for the placed string slots refs
EmittedOffsets(refs) ==
    [k \in 1..Len(refs) |-> AsUsize(EmittedAt(refs[k].row, refs[k].slot))]

\* offs start at 1 and each exceeds the one before by the length of the
\* string before plus 1; equal strings have different offsets
NeverReused(refs, offs) ==
    /\ Strict(refs) /\ Strict(offs)
    /\ (Len(refs) >= 1 => offs[1] = 1)
    /\ \A k \in 2..Len(refs) :
          /\ offs[k] > offs[k - 1]
          /\ offs[k] = offs[k - 1] + Len(refs[k - 1].s) + 1
    /\ \A k \in 1..Len(refs) : \A l \in (k + 1)..Len(refs) :
          refs[k].s = refs[l].s => offs[k] # offs[l]

NeverReusedIn(refs) == NeverReused(refs, EmittedOffsets(refs))

\* C24: write never reuses a string-block offset: over the non-empty
\* strings of all rows in traversal order the offsets emitted in the
\* records start at 1, are strictly increasing, each exceeds the previous
\* by the previous string's byte length + 1, and two occurrences of the
\* same non-empty string have two distinct offsets.
C24_OffsetsNeverReused ==
    Written => NeverReusedIn(StringSlots(ThisTable.row, table, 1, <<>>))

\* two FileData rows written that hold the same non-empty string three
\* times, twice in the first row and once in the second
C24_Witness ==
    /\ Written /\ tbl = "FileData" /\ origin = "table" /\ Len(table) = 2
    /\ table[1].filename = <<97>>
    /\ table[1].filepath = <<97>>
    /\ table[2].filename = <<97>>
    /\ EmittedAt(1, 2) = FromInt(1)
    /\ EmittedAt(1, 3) = FromInt(3)
    /\ EmittedAt(2, 2) = FromInt(5)

(***************************************************************************)
(* The header and the layout of what write emits.                          *)
(***************************************************************************)
\* the header of `out` counts the rows and carries the constants of the
\* table
HeaderOfOwnTable ==
    /\ MagicOf(out) = MAGIC
    /\ RecordCountOf(out) = FromInt(Len(table))
    /\ FieldCountOf(out) = FromInt(ThisTable.FIELD_COUNT)
    /\ RecordSizeOf(out) = FromInt(ThisTable.ROW_SIZE)

\* record i of `out`
RecordOfOut(i) ==
    SubSeq(out, HEADER_SIZE + (i - 1) * ThisTable.ROW_SIZE + 1,
           HEADER_SIZE + i * ThisTable.ROW_SIZE)

\* the record of rows[i] as the record loop emits it after the i - 1
\* rows before it
RecordOfRow(rows, i) ==
    LET before == WriteRecords(ThisTable.write, SubSeq(rows, 1, i - 1), 1,
                               Emit(<<>>, 1))
    IN  WriteRow(ThisTable.write, 1, rows[i],
                 Emit(<<>>, before.string_index)).bytes

\* 20 header bytes, then one record per row in row order, then the string
\* block, and nothing else
HeaderRecordsBlock ==
    /\ Len(out) = BlockStart + AsUsize(StringBlockSizeOf(out))
    /\ \A i \in 1..Len(table) : RecordOfOut(i) = RecordOfRow(table, i)
    /\ BlockOfOut = write_string_block(ThisTable, table, <<>>)

\* C25: the header write emits carries record_count = the number of rows,
\* field_count = FIELD_COUNT and record_size = ROW_SIZE, so read of the
\* same table never refuses what write emitted with an InvalidHeader
\* error; the header comes first, then the records of the rows in row
\* order, then the string block.
C25_HeaderOfWrite ==
    Written =>
        /\ HeaderOfOwnTable
        /\ HeaderRecordsBlock
        /\ pc = "reread" => res2.err.kind # "InvalidHeader"

\* two different Cfg_Categories rows written and read again
C25_Witness ==
    /\ pc = "reread" /\ origin = "table" /\ tbl = "Cfg_Categories"
    /\ Len(table) = 2
    /\ table[1] # table[2]
    /\ RecordCountOf(out) = FromInt(2)
    /\ RecordOfOut(1) # RecordOfOut(2)
    /\ res2.status = "Ok"

(***************************************************************************)
(* One row per record, each from its own chunk.                            *)
(***************************************************************************)
\* bytes [(i - 1) * ROW_SIZE, i * ROW_SIZE) of the record region of `input`
InputChunk(i) ==
    SubSeq(input, HEADER_SIZE + (i - 1) * ThisTable.ROW_SIZE + 1,
           HEADER_SIZE + i * ThisTable.ROW_SIZE)

\* the stream of the one record `chunk` in front of the bytes `rest`
StreamOfOne(chunk, rest) ==
    write_header(DbcHeader(FromInt(1), FieldCountOf(input), RecordSizeOf(input),
                           StringBlockSizeOf(input))) \o chunk \o rest

\* row i of rows is what read decodes from chunk i alone, given the bytes
\* `rest` that follow the record region
RowsFromOwnChunks(rows, rest) ==
    /\ Strict(rest)
    /\ \A i \in 1..Len(rows) :
          /\ Len(InputChunk(i)) = ThisTable.ROW_SIZE
          /\ read(ThisTable, StreamOfOne(InputChunk(i), rest), build).rows
                = << rows[i] >>

\* C26: a read that succeeds returns exactly record_count rows, the i-th
\* decoded from bytes [i * ROW_SIZE, (i + 1) * ROW_SIZE) of the record
\* region (i from 0) with the fields in declared order; no row is skipped,
\* duplicated, reordered or decoded from a partial chunk.
C26_OneRowPerRecord ==
    (ReadDone /\ res.status = "Ok") =>
        /\ FromInt(Len(res.rows)) = RecordCountOf(input)
        /\ RowsFromOwnChunks(res.rows,
              SubSeq(input, HEADER_SIZE + Len(res.rows) * ThisTable.ROW_SIZE + 1,
                     Len(input)))

\* what holds: the same when record_count * record_size fits in 32 bits
C26_OneRowPerRecordIfNoOverflow ==
    (ReadDone /\ res.status = "Ok" /\ HeaderAccepted) =>
        /\ FromInt(Len(res.rows)) = RecordCountOf(input)
        /\ RowsFromOwnChunks(res.rows, SubSeq(input, RecordRegionEnd + 1,
                                              Len(input)))

(***************************************************************************)
(* FIELD_COUNT and ROW_SIZE count the 4-byte slots of a record.            *)
(***************************************************************************)
\* the slots of a localized string: the locales of the version and a flags
\* word
LocalizedSlotsIn(version) == IF version = "vanilla" THEN 9 ELSE 17

\* the 4-byte slots of a field of a table of `version`
WireSlots(f, version) ==
    CASE f.ty \in {"string_array", "i32_array"} -> f.n
      [] f.ty \in {"localized", "extended_localized"} -> LocalizedSlotsIn(version)
      [] OTHER -> 1

RECURSIVE SlotCount(_, _, _, _)
SlotCount(fields, version, i, sum) ==
    IF Strict(sum) /\ i > Len(fields) THEN sum
    ELSE SlotCount(fields, version, i + 1, sum + WireSlots(fields[i], version))

\* the constants of T count the slots of its row
CountsSlots(T) ==
    /\ T.FIELD_COUNT = SlotCount(T.row, T.version, 1, 0)
    /\ T.ROW_SIZE = 4 * T.FIELD_COUNT

\* the encode sequence of write emits ROW_SIZE bytes for every row
EmitsRowSize(T, rows) ==
    \A i \in 1..Len(rows) :
        Len(WriteRow(T.write, 1, rows[i], Emit(<<>>, 1)).bytes) = T.ROW_SIZE

\* the decode sequence of read has taken ROW_SIZE bytes from each of the
\* first n chunks of `input` when it is through with a row
ConsumesRowSize(T, n, block) ==
    /\ Strict(block)
    /\ \A i \in 1..n :
          DecodeRow(T.read, 1, InputChunk(i), block, FieldOk(EmptyRow, 1)).next
              = T.ROW_SIZE + 1

\* C27: FIELD_COUNT is the number of 4-byte slots of a record, each array
\* element counted and a localized string counted as 9 slots in a Vanilla
\* table and 17 in a TBC or Wrath table; ROW_SIZE is 4 * FIELD_COUNT; the
\* decode sequence of read consumes and the encode sequence of write
\* emits exactly ROW_SIZE bytes per row.
C27_FieldCountIsSlotCount ==
    /\ CountsSlots(ThisTable)
    /\ Written =>
          /\ EmitsRowSize(ThisTable, table)
          /\ Len(out) = HEADER_SIZE + Len(table) * ThisTable.ROW_SIZE
                          + Len(BlockOfOut)
    /\ (ReadDone /\ res.status = "Ok" /\ HeaderAccepted) =>
          ConsumesRowSize(ThisTable, Len(res.rows),
                          IF ThisTable.read_string_block THEN InputBlock
                          ELSE <<>>)

\* two Achievement_Category records read into rows of 20 slots and written
\* again as 80 bytes each
C27_Witness ==
    /\ Written /\ origin = "stream" /\ tbl = "Achievement_Category"
    /\ Len(table) = 2
    /\ table[2].name_lang.strings[16] = <<98, 99>>
    /\ table[2].ui_order = FromInt(7)
    /\ RecordSizeOf(out) = FromInt(80)
    /\ Len(out) = HEADER_SIZE + 160 + Len(BlockOfOut)
    /\ EmittedAt(2, 20) = FromInt(7)

(***************************************************************************)
(* The five constructs of the emitted module.                              *)
(***************************************************************************)
\* the table names of the entries of a construct, in the order emitted
NamesIn(entries) == [i \in 1..Len(entries) |-> entries[i].variant]

\* the names of the catalog o, in its order
NamesOf(o) == [i \in 1..Len(o) |-> o[i].name]

\* the five constructs of M have the entries `names` and no others
FiveConstructsOf(M, names) ==
    /\ M.name_enum.variants = names
    /\ NamesIn(M.table_enum.variants) = names
    /\ NamesIn(M.load.arms) = names
    /\ NamesIn(M.write.arms) = names
    /\ NamesIn(M.from_str.arms) = names
    /\ \A i \in 1..Len(names) :
          /\ M.table_enum.variants[i].type = names[i]
          /\ M.load.arms[i].type = names[i]
          /\ M.from_str.arms[i].pattern = Spelling(names[i])

\* C28: for every catalog, the TableName variants, the Table variants, the
\* load arms, the write arms and the from_str arms of the emitted module
\* hold exactly one entry per description, for the same table names and in
\* the order of the catalog's descriptions.
C28_OneEntryPerDescription ==
    gen.pc = "module" => FiveConstructsOf(Module, NamesOf(gen.o))

\* the module of a vanilla catalog of three tables that is not in name
\* order, after a call of its write
C28_Witness ==
    /\ gen.pc = "module" /\ call.op = "write"
    /\ NamesOf(gen.o) = <<"WorldMapArea", "Cfg_Categories", "SpellRange">>
    /\ NamesIn(Module.write.arms) = <<"WorldMapArea", "Cfg_Categories", "SpellRange">>
    /\ call.arg.variant = "SpellRange"
    /\ call.result.status = "Ok"

(***************************************************************************)
(* The module paths of the emitted enum and the `pub mod` lines.           *)
(***************************************************************************)
\* the module file of the version in work, once main has written it
ModRs == fs[table_location(expansions[gen.v], <<109, 111, 100, 46, 114, 115>>)]

\* the modules the `pub mod` lines of the file declare
Declared(file) == {file.modules[k] : k \in 1..Len(file.modules)}

\* the path of entry i of the Table enum and of the load arms is the module
\* main pushed for description i, and that module is declared
PathsAreDeclared(file, modules) ==
    /\ Len(file.enum.table_enum.variants) = Len(modules)
    /\ Len(file.enum.load.arms) = Len(modules)
    /\ \A i \in 1..Len(modules) :
          /\ file.enum.table_enum.variants[i].module = modules[i]
          /\ file.enum.load.arms[i].module = modules[i]
          /\ modules[i] \in Declared(file)
    /\ Declared(file) = {modules[i] : i \in 1..Len(modules)}

\* for a table whose file is in the source tree, the path and the module
\* name are the name of that file
PathIsFileOf(T) ==
    /\ to_snake_case(Spelling(T.name)) = Spelling(T.module)
    /\ module_name(T.name) = Spelling(T.module)

\* the lines are in ascending order
Ascending(lines) ==
    \A k \in 1..(Len(lines) - 1) : ~StrLess(lines[k + 1], lines[k])

\* C29: for every table of a version the module path that
\* create_table_enum writes for it (the heck snake case of its name) is
\* the module name main declares for it with `pub mod` (Writer::module_name
\* of its file), so every path of the Table enum and of load names a
\* declared module; and the `pub mod` lines are in ascending order of
\* module name.
C29_PathsNameDeclaredModules ==
    gen.pc = "sqlite" =>
        /\ PathsAreDeclared(ModRs, gen.modules)
        /\ Ascending(ModRs.modules)
        /\ \A T \in Tables : PathIsFileOf(T)

\* the wrath module file of gtChanceToSpellCritBase and WMOAreaTable: the
\* descriptions are in the order of the table names, the `pub mod` lines in
\* the order of the module names
C29_Witness ==
    /\ gen.pc = "sqlite" /\ expansions[gen.v] = "wrath"
    /\ NamesOf(gen.o) = <<"WMOAreaTable", "gtChanceToSpellCritBase">>
    /\ ModRs.modules = << Spelling("gt_chance_to_spell_crit_base"),
                          <<119, 109, 111, 95, 97, 114, 101, 97, 95, 116, 97,
                            98, 108, 101>> >>
    /\ ModRs.enum.table_enum.variants[1].module = ModRs.modules[2]

====
